---- MODULE Spec2Model ----
(***************************************************************************)
(* A model of the MEV engine of RectiFlex/ETHEREUM-MEV-BOT.                *)
(*                                                                         *)
(*   Part I   the mempool ingest loop and the per-transaction workers      *)
(*            (src/src/enhanced_mempool.rs)                                *)
(*   Part II  the sandwich gas prices (strategy/sandwich.rs,               *)
(*            strategy/enhanced_sandwich.rs, strategy/flashloan_balancer.rs)*)
(*   Part III the bundle builder and the relay client (strategy/bundle.rs) *)
(*   Part IV  the sandwich optimizers (strategy/sandwich.rs,               *)
(*            strategy/enhanced_sandwich.rs)                               *)
(*   Part V   the sizing of an arbitrage (strategy/arbitrage.rs)           *)
(*   Part VI  the arbitrage records (strategy/arbitrage.rs,                *)
(*            strategy/advanced_features.rs, strategy/simulator.rs)        *)
(*   Part VII the pipeline of one transaction (strategy/mod.rs,            *)
(*            enhanced_mempool.rs, strategy/simulator.rs)                  *)
(*   Part VIII the dry runs of a sandwich (strategy/simulator.rs)          *)
(*   Part IX  the analysis of a victim (strategy/sandwich.rs)              *)
(*   Part X   the price comparison across DEXes (strategy/arbitrage.rs)    *)
(*   Part XI  the gas price of an arbitrage (strategy/bundle.rs)           *)
(*                                                                         *)
(* Every part has its own variables, its own next-state relation and its   *)
(* own specification; a part's actions leave the other parts' variables    *)
(* unchanged.                                                              *)
(***************************************************************************)
EXTENDS Integers, Sequences, FiniteSets, TLC

(***************************************************************************)
(* Bounds of the model.                                                    *)
(***************************************************************************)
\* Distinct transaction hashes the pending-tx stream can deliver.
NumHashes == 2
\* Items (transactions, repeats and errors) the stream delivers in one run.
MaxDeliveries == 2
\* Width in bits of the model's 256-bit unsigned integers (U256).
UintBits == 12
\* Model units (wei) per gwei; the program's gwei is 10^9 wei.
GweiUnits == 4
\* Concurrent calls of StrategyManager::execute_opportunity.
NumTasks == 2
\* Chain head when the bundle builder is first called.
StartBlock == 254
\* Width in bits of U256 in the price calculations of the arbitrage search,
\* and of the u64 that a price difference is narrowed to.
CalcBits == 20
U64Bits == 13
\* Blocks mined during a run of the bundle builder.
MaxBlocks == 1
\* Transactions of the bot's account mined during a run.
MaxNonce == 1

\* The reserves tried are the multiples of ReserveStep up to ReserveSteps of
\* them, the victim amounts those of VictimStep, in units of 0.005 ETH.
ReserveStep == 250
ReserveSteps == 4
VictimStep == 100
VictimSteps == 3

(***************************************************************************)
(* Program constants.                                                      *)
(***************************************************************************)
\* enhanced_mempool.rs:91  LAST_ARB_CHECK % 100 == 0
ArbCheckPeriod == 100
\* sandwich.rs:26 and :33  the 2 gwei premium, in gwei
GasPremiumGwei == 2
\* sandwich.rs:24 and :30  the 20 gwei default of an absent gas price, in gwei
DefaultGasPriceGwei == 20
\* enhanced_sandwich.rs:21  gas_price_premium, in gwei
EnhancedPremiumGwei == 2
\* enhanced_sandwich.rs:26  the 20 gwei default, in gwei
EnhancedDefaultGwei == 20
\* sandwich.rs:267  300000 gas at 50 gwei = 0.015 ETH, in units of 0.005 ETH
SimGasCost == 3
\* sandwich.rs:227  500000 gas at 50 gwei = 0.025 ETH, in units of 0.005 ETH
ReportedGasCost == 5
\* sandwich.rs:18  min_profit_wei = 10^17 = 0.1 ETH, in units of 0.005 ETH
MinProfitWei == 20
\* sandwich.rs:228  as_u64: 2^64 - 1 wei = 18.44 ETH, in units of 0.005 ETH
AsU64Max == 3689
\* enhanced_sandwich.rs:18  min_profit_wei = 0.05 ETH, in units of 0.005 ETH
EnhancedMinProfitWei == 10
\* enhanced_sandwich.rs:19  max_position_size = 50 ETH, in units of 0.005 ETH
MaxPositionSize == 10000
\* enhanced_sandwich.rs:81  derivative > 1000
DerivativeFloor == 1000
\* enhanced_sandwich.rs:70  for _ in 0..10
NewtonIterations == 10
\* enhanced_sandwich.rs:167  gwei in one unit of 0.005 ETH
WeiUnitGwei == 5000000
\* arbitrage.rs 218, 219 and 75 in units of 0.01 ETH: the bounds of the
\* search and the test amount of 1 ETH.
ArbLow == 1
ArbHigh == 10000
ArbTestAmount == 100
\* Nested activations that fit the stack of the thread.
MaxStackDepth == 3
\* advanced_features.rs:38 and arbitrage.rs:32 in units of 0.01 ETH: 0.05 ETH
\* and 0.1 ETH; advanced_features.rs:187 and simulator.rs:225: the profit
\* of the placeholder path and of the self-test record.
MinArbProfit == 5
MinProfitThreshold == 10
PlaceholderPathProfit == 10
TestArbProfit == 5
\* gwei in one unit of 0.01 ETH
GweiPerUnit == 10000000
\* In gwei: sandwich.rs:227 and arbitrage.rs:161, the gas_cost of a sandwich
\* and of a cross-DEX opportunity; simulator.rs:160, the balance
\* change of a sandwich; simulator.rs:68, the gas price of the simulator;
\* simulator.rs:131, the gas_used of a failed call.
SandwichOpGasCost == 25000000
CrossDexGasCost == 35000000
BalanceChange == 100000000
SimGasPriceGwei == 50
RevertGasUsed == 300000
\* In gwei: enhanced_sandwich.rs:43, the least value of a victim (0.01 ETH),
\* and sandwich.rs:47, the highest gas price of a victim (500 gwei).
MinVictimValue == 10000000
\* arbitrage.rs:286  10^18, the fixed-point scale of a price; the model's
\* prices have three decimals.
PriceScale == 1000
\* arbitrage.rs:119  price differences are in basis points
BasisPoints == 10000
\* arbitrage.rs:122  the least price difference, 0.3%
MinPriceDiff == 30
\* arbitrage.rs:251  max_impact, 1% in basis points
MaxImpact == 100
\* bundle.rs:149  80% of the profit per gas goes to the gas price
GasSharePercent == 80
\* bundle.rs:152  the 2 gwei priority fee, in gwei
PriorityFeeGwei == 2
MaxVictimGasPrice == 500
\* spec.md 4.4: the default min_profit_wei of the acceptance rule, 0.05 ETH,
\* in units of 0.005 ETH; only the statement of claim C14 reads it.
SpecMinProfit == 10
\* spec.md 4.9: "recent N" retention of the dedup set (N = 10 000).  The
\* code has no such constant; only the statement of claim C4 reads it.
RetentionN == 10000

VARIABLES
    \* ---- Part I: enhanced_mempool.rs ----
    ingest,         \* the `while let` loop: "running", "ended" (stream returned None), "dead" (unwound)
    delivered,      \* items the stream has yielded so far
    offers,         \* offers[h]: times the stream yielded Ok(tx) with hash h
    processed,      \* keys of the processed_txs HashMap
    spawned,        \* spawned[h]: tokio::spawn calls made for hash h
    wpc,            \* wpc[h]: where the worker of hash h stands
    hasOpp,         \* hasOpp[h]: all_opportunities is non-empty
    observed,       \* observed[h]: LAST_ARB_CHECK as read by the test in line 91 (-1: not yet)
    reg,            \* reg[h]: LAST_ARB_CHECK as loaded by `+= 1` in line 100 (-1: nothing loaded)
    LAST_ARB_CHECK, \* static mut LAST_ARB_CHECK: u64
    arbSearches,    \* calls of find_multi_dex_arbitrage started
    submits,        \* submits[h]: POSTs of the worker's bundle to the relay
    relayResp,      \* relayResp[h]: the relay's reply to the worker's POST
    execResult,     \* execResult[h]: what StrategyManager::execute_opportunity returned
    alerted,        \* alerted[h]: alert() was called for the worker's opportunity
    afterFail,      \* hashes dispatched while a failed worker already existed
    \* ---- Part II: the gas prices of a sandwich ----
    gStage,         \* "off", "victim" (a victim was observed), "priced"
    gKind,          \* which strategy builds the sandwich
    gVictim,        \* victim_tx.gas_price: Option<U256>
    gFront,         \* gas price set on the frontrun transaction
    gBack,          \* gas price set on the backrun transaction
    \* ---- Part III: strategy/bundle.rs ----
    head,           \* the chain's block number
    chainNonce,     \* the bot account's transaction count at the latest block
    bpc,            \* bpc[t]: where call t of execute_opportunity stands
    bVictim,        \* bVictim[t]: the opportunity's victim transaction
    bExpiry,        \* bExpiry[t]: the opportunity's expiry_block
    bBlock,         \* bBlock[t]: block_number read in line 33
    bTxs,           \* bTxs[t]: bundle_txs
    bBundle,        \* bBundle[t]: the Bundle returned by build_sandwich_bundle
    bSigned,        \* bSigned[t]: the bytes whose keccak-256 digest was signed
    bPosted,        \* bPosted[t]: the HTTP request sent to the relay
    bResult,        \* bResult[t]: what execute_opportunity returned
    \* ---- Part IV: the sandwich optimizers ----
    opt,            \* one call of calculate_optimal_sandwich or calculate_advanced_sandwich
    \* ---- Part V: strategy/arbitrage.rs, the arbitrage sizing ----
    arb,            \* one call of calculate_arbitrage_profit and the calls nested in it
    \* ---- Part VI: the arbitrage records and their acceptance ----
    rec,            \* the arbitrage record under construction
    \* ---- Part VII: analyze_transaction and the choice of the opportunity ----
    pipe,           \* the opportunities of one transaction on their way to execution
    \* ---- Part VIII: strategy/simulator.rs, simulate_sandwich step by step ----
    dry,            \* one call of simulate_sandwich and the dry runs it has issued
    \* ---- Part IX: the analysis of one victim transaction ----
    vic,            \* the victim handed to a sandwich strategy and what came of it
    \* ---- Part X: calculations on U256 values ----
    calc,           \* one call of find_cross_dex_arbitrage up to the sizing
    \* ---- Part XI: strategy/bundle.rs, the gas price of an arbitrage ----
    gp              \* one call of calculate_optimal_gas_price

mvars == <<ingest, delivered, offers, processed, spawned, wpc, hasOpp, observed,
           reg, LAST_ARB_CHECK, arbSearches, submits, relayResp, execResult,
           alerted, afterFail>>

gvars == <<gStage, gKind, gVictim, gFront, gBack>>

bvars == <<head, chainNonce, bpc, bVictim, bExpiry, bBlock, bTxs, bBundle, bSigned,
           bPosted, bResult>>

xvars == <<dry, vic, calc, gp>>

nvars == <<opt, arb, rec, pipe, xvars>>

vars == <<mvars, gvars, bvars, nvars>>

None == [some |-> FALSE, v |-> 0]
Some(x) == [some |-> TRUE, v |-> x]

(***************************************************************************)
(* Part I.  enhanced_mempool_monitor and analyze_with_all_strategies.      *)
(***************************************************************************)
Hashes == 1..NumHashes

\* Hashes ingested in an earlier stretch of the run (see InitRetention).
OldHashes == (1 - RetentionN)..0

RelayMessages == {"bundle already included", "unable to decode txs"}

NoResp == [kind |-> "none", message |-> ""]
RelayResponses ==
    {[kind |-> "result", message |-> ""],
     [kind |-> "empty", message |-> ""],
     [kind |-> "transport", message |-> ""]}
    \cup {[kind |-> "error", message |-> m] : m \in RelayMessages}

NoResult == [ok |-> FALSE, text |-> <<>>]

\* Worker positions at which the task has ended.
Terminal == {"done", "panicked"}
\* Worker positions at which the code can panic: arithmetic and unwrap in the
\* strategies (analyze), in find_multi_dex_arbitrage (arb_find), and
\* victim_tx.to.unwrap() while the bundle is built (execute).
PanicPoints == {"analyze", "arb_find", "execute"}

InFlight == {h \in Hashes : wpc[h] \notin Terminal \cup {"none"}}

Failed(h) ==
    \/ wpc[h] = "panicked"
    \/ wpc[h] = "done" /\ execResult[h] # NoResult /\ ~execResult[h].ok

\* The monitor with `earlier` as the hashes it has already ingested, their
\* workers finished, and `counter` as the value of LAST_ARB_CHECK.
MonitorState(earlier, counter) ==
    /\ ingest = "running"
    /\ delivered = 0
    /\ offers = [h \in Hashes |-> 0]
    /\ processed = earlier
    /\ spawned = [h \in Hashes |-> 0]
    /\ wpc = [h \in Hashes |-> "none"]
    /\ hasOpp = [h \in Hashes |-> FALSE]
    /\ observed = [h \in Hashes |-> -1]
    /\ reg = [h \in Hashes |-> -1]
    /\ LAST_ARB_CHECK = counter
    /\ arbSearches = 0
    /\ submits = [h \in Hashes |-> 0]
    /\ relayResp = [h \in Hashes |-> NoResp]
    /\ execResult = [h \in Hashes |-> NoResult]
    /\ alerted = [h \in Hashes |-> FALSE]
    /\ afterFail = {}

\* Lines 20-31: the state when the loop is entered.
InitM == MonitorState({}, 0)

\* The state after RetentionN distinct hashes have been ingested and their
\* workers have finished, each having incremented the counter once: Init
\* followed by RetentionN iterations of the loop.
InitRetention == MonitorState(OldHashes, RetentionN)

\* The dedup test of line 37, made while the mutex guard of line 36 is held.
AlreadyProcessedNever(h) == FALSE
AlreadyProcessed(h) == h \in processed

\* Lines 33-56, one iteration for Some(Ok(tx)) with tx.hash = h: lock, test,
\* insert, spawn; the guard is dropped at the end of the iteration and nothing
\* is awaited while it is held.  The loop does not wait for the spawned task.
IngestTx(h) ==
    /\ UNCHANGED <<gvars, bvars, nvars>>
    /\ ingest = "running"
    /\ delivered < MaxDeliveries
    /\ delivered' = delivered + 1
    /\ offers' = [offers EXCEPT ![h] = @ + 1]
    /\ IF AlreadyProcessed(h)
       THEN UNCHANGED <<processed, spawned, wpc, afterFail>>
       ELSE /\ processed' = processed \cup {h}
            /\ spawned' = [spawned EXCEPT ![h] = @ + 1]
            /\ wpc' = [wpc EXCEPT ![h] = "analyze"]
            /\ afterFail' = IF \E g \in Hashes : Failed(g)
                            THEN afterFail \cup {h} ELSE afterFail
    /\ UNCHANGED <<ingest, hasOpp, observed, reg, LAST_ARB_CHECK, arbSearches,
                   submits, relayResp, execResult, alerted>>

\* Line 34: Some(Err(_)) is skipped.
IngestErr ==
    /\ UNCHANGED <<gvars, bvars, nvars>>
    /\ ingest = "running"
    /\ delivered < MaxDeliveries
    /\ delivered' = delivered + 1
    /\ UNCHANGED <<ingest, offers, processed, spawned, wpc, hasOpp, observed, reg,
                   LAST_ARB_CHECK, arbSearches, submits, relayResp, execResult,
                   alerted, afterFail>>

\* Line 33: the stream returns None and the loop ends.
StreamEnd ==
    /\ UNCHANGED <<gvars, bvars, nvars>>
    /\ ingest = "running"
    /\ ingest' = "ended"
    /\ UNCHANGED <<delivered, offers, processed, spawned, wpc, hasOpp, observed,
                   reg, LAST_ARB_CHECK, arbSearches, submits, relayResp,
                   execResult, alerted, afterFail>>

\* Lines 65-86: the strategies are run (analyze_transaction, JIT, backrun);
\* errors inside them yield no opportunity.
Analyze(h, found) ==
    /\ UNCHANGED <<gvars, bvars, nvars>>
    /\ wpc[h] = "analyze"
    /\ hasOpp' = [hasOpp EXCEPT ![h] = found]
    /\ wpc' = [wpc EXCEPT ![h] = "arb_test"]
    /\ UNCHANGED <<ingest, delivered, offers, processed, spawned, observed, reg,
                   LAST_ARB_CHECK, arbSearches, submits, relayResp, execResult,
                   alerted, afterFail>>

\* Line 91: the unsynchronized read and test of the counter.
ArbTest(h) ==
    /\ UNCHANGED <<gvars, bvars, nvars>>
    /\ wpc[h] = "arb_test"
    /\ observed' = [observed EXCEPT ![h] = LAST_ARB_CHECK]
    /\ IF LAST_ARB_CHECK % ArbCheckPeriod = 0
       THEN /\ arbSearches' = arbSearches + 1
            /\ wpc' = [wpc EXCEPT ![h] = "arb_find"]
       ELSE /\ arbSearches' = arbSearches
            /\ wpc' = [wpc EXCEPT ![h] = "arb_load"]
    /\ UNCHANGED <<ingest, delivered, offers, processed, spawned, hasOpp, reg,
                   LAST_ARB_CHECK, submits, relayResp, execResult, alerted,
                   afterFail>>

\* Lines 92-98: find_multi_dex_arbitrage(..).await returns.
ArbFindDone(h) ==
    /\ UNCHANGED <<gvars, bvars, nvars>>
    /\ wpc[h] = "arb_find"
    /\ wpc' = [wpc EXCEPT ![h] = "arb_load"]
    /\ UNCHANGED <<ingest, delivered, offers, processed, spawned, hasOpp, observed,
                   reg, LAST_ARB_CHECK, arbSearches, submits, relayResp,
                   execResult, alerted, afterFail>>

\* Line 100, `LAST_ARB_CHECK += 1` on a static mut: a plain load ...
ArbLoad(h) ==
    /\ UNCHANGED <<gvars, bvars, nvars>>
    /\ wpc[h] = "arb_load"
    /\ reg' = [reg EXCEPT ![h] = LAST_ARB_CHECK]
    /\ wpc' = [wpc EXCEPT ![h] = "arb_store"]
    /\ UNCHANGED <<ingest, delivered, offers, processed, spawned, hasOpp, observed,
                   LAST_ARB_CHECK, arbSearches, submits, relayResp, execResult,
                   alerted, afterFail>>

\* ... and a plain store; workers run on the multi-threaded runtime, so the
\* two can interleave with another worker's.  Lines 104-113 follow.
ArbStore(h) ==
    /\ UNCHANGED <<gvars, bvars, nvars>>
    /\ wpc[h] = "arb_store"
    /\ LAST_ARB_CHECK' = reg[h] + 1
    /\ reg' = [reg EXCEPT ![h] = -1]
    /\ wpc' = [wpc EXCEPT ![h] = IF hasOpp[h] THEN "execute" ELSE "done"]
    /\ UNCHANGED <<ingest, delivered, offers, processed, spawned, hasOpp, observed,
                   arbSearches, submits, relayResp, execResult, alerted,
                   afterFail>>

\* strategy/mod.rs 69-79 up to the POST of bundle.rs 201-206: the bundle is
\* built and posted once, or building it fails with Err.
Execute(h, built) ==
    /\ UNCHANGED <<gvars, bvars, nvars>>
    /\ wpc[h] = "execute"
    /\ IF built
       THEN /\ submits' = [submits EXCEPT ![h] = @ + 1]
            /\ wpc' = [wpc EXCEPT ![h] = "await_relay"]
            /\ UNCHANGED execResult
       ELSE /\ execResult' = [execResult EXCEPT ![h] =
                                 [ok |-> FALSE, text |-> <<"build failed">>]]
            /\ wpc' = [wpc EXCEPT ![h] = "done"]
            /\ UNCHANGED submits
    /\ UNCHANGED <<ingest, delivered, offers, processed, spawned, hasOpp, observed,
                   reg, LAST_ARB_CHECK, arbSearches, relayResp, alerted, afterFail>>

\* bundle.rs 208-214 and 112-117: what send_bundle returns for a reply.  The
\* error object is looked at first.
SendBundleResultIgnoresError(r) ==
    [ok |-> r.kind \in {"result", "error"}, text |-> <<"bundle hash">>]
SendBundleResult(r) ==
    CASE r.kind = "error" -> [ok |-> FALSE, text |-> <<"Flashbots error: ", r.message>>]
      [] r.kind = "result" -> [ok |-> TRUE, text |-> <<"bundle hash">>]
      [] r.kind = "empty" -> [ok |-> FALSE, text |-> <<"No bundle hash in response">>]
      [] OTHER -> [ok |-> FALSE, text |-> <<"request failed">>]

\* enhanced_mempool.rs 129-145: Ok alerts, Err only prints; no retry.
RelayReply(h, r) ==
    /\ UNCHANGED <<gvars, bvars, nvars>>
    /\ wpc[h] = "await_relay"
    /\ relayResp' = [relayResp EXCEPT ![h] = r]
    /\ execResult' = [execResult EXCEPT ![h] = SendBundleResult(r)]
    /\ alerted' = [alerted EXCEPT ![h] = SendBundleResult(r).ok]
    /\ wpc' = [wpc EXCEPT ![h] = "done"]
    /\ UNCHANGED <<ingest, delivered, offers, processed, spawned, hasOpp, observed,
                   reg, LAST_ARB_CHECK, arbSearches, submits, afterFail>>

\* Lines 47-54: the worker is a task of its own (tokio::spawn, the JoinHandle
\* dropped): a panic ends that task and nothing else.
InlineTaskPanics(h) ==
    /\ wpc' = [g \in Hashes |-> IF wpc[g] \in Terminal \cup {"none"}
                                 THEN wpc[g] ELSE "panicked"]
    /\ ingest' = "dead"
SpawnedTaskPanics(h) ==
    /\ wpc' = [wpc EXCEPT ![h] = "panicked"]
    /\ ingest' = ingest

WorkerPanic(h) ==
    /\ UNCHANGED <<gvars, bvars, nvars>>
    /\ wpc[h] \in PanicPoints
    /\ SpawnedTaskPanics(h)
    /\ UNCHANGED <<delivered, offers, processed, spawned, hasOpp, observed, reg,
                   LAST_ARB_CHECK, arbSearches, submits, relayResp, execResult,
                   alerted, afterFail>>

NextM ==
    \/ \E h \in Hashes : IngestTx(h)
    \/ IngestErr
    \/ StreamEnd
    \/ \E h \in Hashes, found \in BOOLEAN : Analyze(h, found)
    \/ \E h \in Hashes : ArbTest(h)
    \/ \E h \in Hashes : ArbFindDone(h)
    \/ \E h \in Hashes : ArbLoad(h)
    \/ \E h \in Hashes : ArbStore(h)
    \/ \E h \in Hashes, built \in BOOLEAN : Execute(h, built)
    \/ \E h \in Hashes, r \in RelayResponses : RelayReply(h, r)
    \/ \E h \in Hashes : WorkerPanic(h)

(***************************************************************************)
(* Part II.  The gas prices of the frontrun and backrun transactions.      *)
(* Amounts are U256 values of UintBits bits, in units of 1/GweiUnits gwei. *)
(***************************************************************************)
U256Max == 2^UintBits - 1
U256 == 0..U256Max
Gwei(n) == n * GweiUnits

saturating_add(a, b) == IF a + b > U256Max THEN U256Max ELSE a + b
unwrap_or(o, d) == IF o.some THEN o.v ELSE d

\* sandwich.rs 23-27
calculate_frontrun_gas_price(gas_price) ==
    saturating_add(unwrap_or(gas_price, Gwei(DefaultGasPriceGwei)), Gwei(GasPremiumGwei))

\* sandwich.rs 29-37
calculate_backrun_gas_price(gas_price) ==
    LET base_price == unwrap_or(gas_price, Gwei(DefaultGasPriceGwei))
    IN  IF base_price > Gwei(GasPremiumGwei)
        THEN base_price - Gwei(GasPremiumGwei)
        ELSE base_price \div 2

\* enhanced_sandwich.rs 25-39: <<frontrun_price, backrun_price>>
calculate_safe_gas_prices(victim_gas_price) ==
    LET base_price == unwrap_or(victim_gas_price, Gwei(EnhancedDefaultGwei))
        premium == Gwei(EnhancedPremiumGwei)
    IN  << saturating_add(base_price, premium),
           IF base_price > premium THEN base_price - premium ELSE base_price \div 2 >>

\* flashloan_balancer.rs 57-64: the victim's price, or zero when absent.
build_flashloan_tx_gas_price(gas_price) == Some(unwrap_or(gas_price, 0))
\* flashloan_balancer.rs 66-72: build_repay_tx sets no gas price.
build_repay_tx_gas_price == None

SandwichKinds == {"sandwich", "enhanced", "flashloan"}
VictimGasPrices == {None} \cup {Some(g) : g \in U256}

IdleG ==
    /\ gStage = "off"
    /\ gKind = "sandwich"
    /\ gVictim = None
    /\ gFront = None
    /\ gBack = None

\* A victim with any gas price is observed by any of the three strategies.
InitG ==
    /\ gStage = "victim"
    /\ gKind \in SandwichKinds
    /\ gVictim \in VictimGasPrices
    /\ gFront = None
    /\ gBack = None

\* sandwich.rs 272-303: build_frontrun_tx and build_backrun_tx.
PriceSandwich ==
    /\ gStage = "victim" /\ gKind = "sandwich"
    /\ gFront' = Some(calculate_frontrun_gas_price(gVictim))
    /\ gBack' = Some(calculate_backrun_gas_price(gVictim))
    /\ gStage' = "priced"
    /\ UNCHANGED <<gKind, gVictim, mvars, bvars, nvars>>

\* enhanced_sandwich.rs 25-39.
PriceEnhanced ==
    /\ gStage = "victim" /\ gKind = "enhanced"
    /\ gFront' = Some(calculate_safe_gas_prices(gVictim)[1])
    /\ gBack' = Some(calculate_safe_gas_prices(gVictim)[2])
    /\ gStage' = "priced"
    /\ UNCHANGED <<gKind, gVictim, mvars, bvars, nvars>>

\* flashloan_balancer.rs 32-41: build_flashloan_sandwich.
PriceFlashloan ==
    /\ gStage = "victim" /\ gKind = "flashloan"
    /\ gFront' = build_flashloan_tx_gas_price(gVictim)
    /\ gBack' = build_repay_tx_gas_price
    /\ gStage' = "priced"
    /\ UNCHANGED <<gKind, gVictim, mvars, bvars, nvars>>

NextG == PriceSandwich \/ PriceEnhanced \/ PriceFlashloan

(***************************************************************************)
(* Part III.  BundleBuilder: build_sandwich_bundle and send_bundle.        *)
(***************************************************************************)
Tasks == 1..NumTasks

NoAddr == "none"
BotAddr == "bot"
VictimAddr == "victim"
BotKey == "bot key"
AuthKey == "flashbots_signer key"

\* The observed victim transactions.  Every victim that reaches the builder
\* has a recipient: build_frontrun_tx (sandwich.rs 281) has unwrapped it.
VictimTxs == {[from |-> f, nonce |-> 0] : f \in {VictimAddr, BotAddr}}

\* details.frontrun_tx and details.backrun_tx as the strategy built them
\* (sandwich.rs 272-303): recipient, value, gas and gas price are set, the
\* sender and the nonce are not.  `kind` stands for the fields that are set.
DetailsTx(kind) == [kind |-> kind, from |-> NoAddr, nonce |-> None]

NoBundle == [txs |-> <<>>, block_number |-> 0]
NoPost == [header |-> <<>>, body |-> <<>>]

\* bundle.rs 120-125.  fill_transaction of the signer middleware sets the
\* sender to the signer and, the nonce being unset, takes the nonce from the
\* chain: the account's transaction count at the latest block.  The builder
\* keeps no nonce of its own.
sign_transaction(tx) ==
    [tx EXCEPT !.from = IF tx.from = NoAddr THEN BotAddr ELSE tx.from,
               !.nonce = IF tx.nonce.some THEN tx.nonce ELSE Some(chainNonce)]

\* bundle.rs 48-58
victim_typed(v) == [kind |-> "victim", from |-> v.from, nonce |-> Some(v.nonce)]

BundleTransaction(signer, tx, can_revert) ==
    [signer |-> signer, tx |-> tx, can_revert |-> can_revert]

\* format!("0x{:x}", n) of bundle.rs 168
HexDigits == <<"0", "1", "2", "3", "4", "5", "6", "7",
               "8", "9", "a", "b", "c", "d", "e", "f">>
RECURSIVE LowerHex(_)
LowerHex(n) ==
    IF n < 16 THEN <<HexDigits[n + 1]>>
    ELSE Append(LowerHex(n \div 16), HexDigits[(n % 16) + 1])
format_block_number(n) == <<"0x">> \o LowerHex(n)

\* bundle.rs 160-164: every entry, in order, is signed with the provider's
\* signer and the hex of the result is pushed.
RECURSIVE signed_transactions_reversed(_)
signed_transactions_reversed(txs) ==
    IF txs = <<>> THEN <<>>
    ELSE Append(signed_transactions_reversed(Tail(txs)),
                [over |-> Head(txs).tx, key |-> BotKey])
signed_transactions(txs) ==
    [i \in 1..Len(txs) |-> [over |-> txs[i].tx, key |-> BotKey]]

\* bundle.rs 157-173
serialize_bundle(bundle) ==
    [txs |-> signed_transactions(bundle.txs),
     blockNumber |-> format_block_number(bundle.block_number),
     revertingTxHashes |-> <<>>]

\* serde_json of FlashbotsBundle (bundle.rs 222-234): the timestamps are None
\* and skipped.
json_of_bundle(fb) ==
    <<"{", "txs", fb.txs, "blockNumber", fb.blockNumber,
      "revertingTxHashes", fb.revertingTxHashes, "}">>

\* serde_json of FlashbotsRequest (bundle.rs 194-199, 236-242)
json_of_request(fb) ==
    <<"{", "jsonrpc", "2.0", "method", "eth_sendBundle",
      "params", <<json_of_bundle(fb)>>, "id", "1", "}">>

\* bundle.rs 175-184: the bytes that are hashed and signed.
sign_bundle_body_message(fb) == json_of_bundle(fb)

\* bundle.rs 186-206: the header and the body of the POST.
submit_to_flashbots_request(fb, message) ==
    [header |-> <<"X-Flashbots-Signature", AuthKey, message>>,
     body |-> json_of_request(fb)]

IdleB ==
    /\ head = StartBlock
    /\ chainNonce = 0
    /\ bpc = [t \in Tasks |-> "idle"]
    /\ bVictim = [t \in Tasks |-> [from |-> NoAddr, nonce |-> 0]]
    /\ bExpiry = [t \in Tasks |-> 0]
    /\ bBlock = [t \in Tasks |-> 0]
    /\ bTxs = [t \in Tasks |-> <<>>]
    /\ bBundle = [t \in Tasks |-> NoBundle]
    /\ bSigned = [t \in Tasks |-> <<>>]
    /\ bPosted = [t \in Tasks |-> NoPost]
    /\ bResult = [t \in Tasks |-> NoResult]

\* sandwich.rs 160: the opportunity's expiry_block, set when the victim is
\* analysed.
expiry_block_at(current_block) == current_block + 1

\* sandwich.rs 142-161, then strategy/mod.rs 69-76: the victim is analysed
\* at the current head and execute_opportunity is called with the sandwich;
\* the simulation and the ranking lie between the two, so blocks can arrive
\* before line 33 of build_sandwich_bundle runs.  The calls are numbered in
\* the order in which they are made.
BStart(t, v) ==
    /\ bpc[t] = "idle"
    /\ \A u \in Tasks : u < t => bpc[u] # "idle"
    /\ bVictim' = [bVictim EXCEPT ![t] = v]
    /\ bExpiry' = [bExpiry EXCEPT ![t] = expiry_block_at(head)]
    /\ bpc' = [bpc EXCEPT ![t] = "get_block"]
    /\ UNCHANGED <<head, chainNonce, bBlock, bTxs, bBundle, bSigned, bPosted,
                   bResult, mvars, gvars, nvars>>

\* bundle.rs 33-34
BGetBlock(t) ==
    /\ bpc[t] = "get_block"
    /\ bBlock' = [bBlock EXCEPT ![t] = head]
    /\ bpc' = [bpc EXCEPT ![t] = "sign_front"]
    /\ UNCHANGED <<head, chainNonce, bVictim, bExpiry, bTxs, bBundle, bSigned, bPosted,
                   bResult, mvars, gvars, nvars>>

\* bundle.rs 39-64: the frontrun is filled and pushed, then the victim is
\* re-encoded and pushed (nothing is awaited in between).
BSignFront(t) ==
    /\ bpc[t] = "sign_front"
    /\ bTxs' = [bTxs EXCEPT ![t] =
          <<BundleTransaction(BotAddr, sign_transaction(DetailsTx("frontrun")), FALSE),
            BundleTransaction(bVictim[t].from, victim_typed(bVictim[t]), TRUE)>>]
    /\ bpc' = [bpc EXCEPT ![t] = "sign_back"]
    /\ UNCHANGED <<head, chainNonce, bVictim, bExpiry, bBlock, bBundle, bSigned, bPosted,
                   bResult, mvars, gvars, nvars>>

\* bundle.rs 66-77, then send_bundle, bundle.rs 102-110 and 186-206: the
\* backrun is filled and pushed and the bundle returned; it is serialized,
\* the body is signed and the request is posted.  Only the fill reads the
\* chain.
BSignBackAndSend(t) ==
    /\ bpc[t] = "sign_back"
    /\ LET txs == Append(bTxs[t], BundleTransaction(BotAddr,
                      sign_transaction(DetailsTx("backrun")), FALSE))
           bundle == [txs |-> txs, block_number |-> bBlock[t] + 1]
           fb == serialize_bundle(bundle)
           message == sign_bundle_body_message(fb)
       IN  /\ bTxs' = [bTxs EXCEPT ![t] = txs]
           /\ bBundle' = [bBundle EXCEPT ![t] = bundle]
           /\ bSigned' = [bSigned EXCEPT ![t] = message]
           /\ bPosted' = [bPosted EXCEPT ![t] = submit_to_flashbots_request(fb, message)]
    /\ bpc' = [bpc EXCEPT ![t] = "await_relay"]
    /\ UNCHANGED <<head, chainNonce, bVictim, bExpiry, bBlock, bResult, mvars, gvars, nvars>>

\* The call returns `result`; its locals are dropped.
BReturn(t, result) ==
    /\ bResult' = [bResult EXCEPT ![t] = result]
    /\ bpc' = [bpc EXCEPT ![t] = "done"]
    /\ bVictim' = [bVictim EXCEPT ![t] = [from |-> NoAddr, nonce |-> 0]]
    /\ bExpiry' = [bExpiry EXCEPT ![t] = 0]
    /\ bBlock' = [bBlock EXCEPT ![t] = 0]
    /\ bTxs' = [bTxs EXCEPT ![t] = <<>>]
    /\ bBundle' = [bBundle EXCEPT ![t] = NoBundle]
    /\ bSigned' = [bSigned EXCEPT ![t] = <<>>]
    /\ bPosted' = [bPosted EXCEPT ![t] = NoPost]
    /\ UNCHANGED <<head, chainNonce, mvars, gvars, nvars>>

\* Lines 33, 40 and 67: a chain query fails and `?` returns the error.
BRpcError(t) ==
    /\ bpc[t] \in {"get_block", "sign_front", "sign_back"}
    /\ BReturn(t, [ok |-> FALSE, text |-> <<"provider error">>])

\* bundle.rs 208-214 and 112-117
BReply(t, r) ==
    /\ bpc[t] = "await_relay"
    /\ BReturn(t, SendBundleResult(r))

\* The chain: a block is mined; it may hold a transaction of the bot's
\* account sent earlier (an arbitrage sent by strategy/mod.rs 86).
NewBlock(botTxMined) ==
    /\ head < StartBlock + MaxBlocks
    /\ head' = head + 1
    /\ IF botTxMined
       THEN chainNonce < MaxNonce /\ chainNonce' = chainNonce + 1
       ELSE chainNonce' = chainNonce
    /\ UNCHANGED <<bpc, bVictim, bExpiry, bBlock, bTxs, bBundle, bSigned, bPosted, bResult,
                   mvars, gvars, nvars>>

NextB ==
    \/ \E t \in Tasks, v \in VictimTxs : BStart(t, v)
    \/ \E t \in Tasks : BGetBlock(t)
    \/ \E t \in Tasks : BSignFront(t)
    \/ \E t \in Tasks : BSignBackAndSend(t)
    \/ \E t \in Tasks : BRpcError(t)
    \/ \E t \in Tasks, r \in RelayResponses : BReply(t, r)
    \/ \E m \in BOOLEAN : NewBlock(m)

(***************************************************************************)
(* Part IV.  The sandwich optimizers: SandwichStrategy::                   *)
(* calculate_optimal_sandwich with its acceptance in                       *)
(* analyze_token_to_eth_swap, and EnhancedSandwichStrategy::               *)
(* calculate_advanced_sandwich.  Amounts are in units of 0.005 ETH and far *)
(* below the U256 range, so of the checked U256 arithmetic only the        *)
(* subtraction below zero can abort.                                       *)
(***************************************************************************)
\* uni::get_amount_out, whose file is not among the sources; after spec.md
\* 4.1 with the default fee of 30 bps ((10000 - 30) / 10000 = 997 / 1000):
\* <<amount_out, r_in + amount_in, r_out - amount_out>>.
get_amount_out(amount_in, r_in, r_out) ==
    IF amount_in = 0 \/ r_in = 0 \/ r_out = 0
    THEN <<0, r_in + amount_in, r_out>>
    ELSE LET out == (amount_in * 997 * r_out) \div (r_in * 1000 + amount_in * 997)
         IN  <<out, r_in + amount_in, r_out - out>>

\* sandwich.rs 232-270: <<profit, gas_cost>>
simulate_sandwich_profit(frontrun_amount, victim_amount, reserve_in, reserve_out) ==
    LET s1 == get_amount_out(frontrun_amount, reserve_in, reserve_out)
        s2 == get_amount_out(victim_amount, s1[2], s1[3])
        s3 == get_amount_out(s1[1], s2[3], s2[2])
        backrun_out == s3[1]
    IN  << IF backrun_out > frontrun_amount THEN backrun_out - frontrun_amount ELSE 0,
           SimGasCost >>

\* sandwich.rs 195: the upper end of the search bracket.
bracket_high_whole_pool(reserve_in) == reserve_in
bracket_high(reserve_in) == reserve_in \div 10

NoSandwich == [some |-> FALSE, frontrun_amount |-> 0, backrun_amount |-> 0,
               profit |-> 0, gas_cost |-> 0]
OptimalSandwich(frontrun_amount, backrun_amount, profit, gas_cost) ==
    [some |-> TRUE, frontrun_amount |-> frontrun_amount,
     backrun_amount |-> backrun_amount, profit |-> profit, gas_cost |-> gas_cost]

\* The inputs of one optimizer call.
OptInput(victim_amount, reserve_in, reserve_out) ==
    [stage |-> "input", fn |-> "none", victim_amount |-> victim_amount,
     reserve_in |-> reserve_in, reserve_out |-> reserve_out,
     low |-> 0, high |-> 0, best_profit |-> 0, best_amount |-> 0, iters |-> 0,
     result |-> NoSandwich, emitted |-> FALSE]

ReserveValues == {k * ReserveStep : k \in 0..ReserveSteps}
VictimAmounts == {k * VictimStep : k \in 0..VictimSteps}
\* base_fee_per_gas of the latest block, in gwei; 30 also when it is absent.
BaseFees == {30, 150}

IdleO == opt = [OptInput(0, 0, 0) EXCEPT !.stage = "idle"]

InitO ==
    opt \in {OptInput(v, ri, ro) :
                v \in VictimAmounts, ri \in ReserveValues, ro \in ReserveValues}

\* sandwich.rs 194-197
BisectEnter ==
    /\ opt.stage = "input"
    /\ opt' = [opt EXCEPT !.stage = "loop", !.fn = "bisect", !.low = 0,
                          !.high = bracket_high(opt.reserve_in),
                          !.best_profit = 0, !.best_amount = 0]
    /\ UNCHANGED <<mvars, gvars, bvars, xvars, arb, rec, pipe>>

\* sandwich.rs 199-221, one iteration of the loop.  `mid - 1` at mid = 0 is
\* a checked U256 subtraction and aborts.
BisectStep ==
    /\ opt.stage = "loop"
    /\ opt.low <= opt.high
    /\ LET mid == (opt.low + opt.high) \div 2
           sim == simulate_sandwich_profit(mid, opt.victim_amount,
                                           opt.reserve_in, opt.reserve_out)
           profit == sim[1]
           gas_cost == sim[2]
           better == profit > opt.best_profit
           seen == [opt EXCEPT !.best_profit = IF better THEN profit ELSE @,
                               !.best_amount = IF better THEN mid ELSE @,
                               !.iters = @ + 1]
       IN  opt' = IF profit > gas_cost
                  THEN [seen EXCEPT !.low = mid + 1]
                  ELSE IF mid = 0
                       THEN [seen EXCEPT !.stage = "aborted"]
                       ELSE [seen EXCEPT !.high = mid - 1]
    /\ UNCHANGED <<mvars, gvars, bvars, xvars, arb, rec, pipe>>

\* sandwich.rs 223-229.  as_u64 in line 228 aborts when the value does not
\* fit 64 bits.
BisectReturn ==
    /\ opt.stage = "loop"
    /\ opt.low > opt.high
    /\ opt' = IF opt.reserve_in > AsU64Max \/ opt.best_amount > AsU64Max
              THEN [opt EXCEPT !.stage = "aborted"]
              ELSE [opt EXCEPT !.stage = "returned",
                      !.result = OptimalSandwich(opt.best_amount,
                                    (opt.best_amount * 95) \div 100,
                                    opt.best_profit, ReportedGasCost)]
    /\ UNCHANGED <<mvars, gvars, bvars, xvars, arb, rec, pipe>>

\* sandwich.rs 123-125 and 142-161: the acceptance of the result.
TokenToEthAccept ==
    /\ opt.stage = "returned"
    /\ opt' = [opt EXCEPT !.stage = "decided",
                          !.emitted = ~(opt.result.profit < MinProfitWei)]
    /\ UNCHANGED <<mvars, gvars, bvars, xvars, arb, rec, pipe>>

\* enhanced_sandwich.rs 123-155
calculate_simple_profit(x, victim_amount, r_in, r_out) ==
    LET k == r_in * r_out
        new_r_in == r_in + x
    IN  IF new_r_in = 0 THEN 0
        ELSE LET new_r_out == k \div new_r_in
                 amount_out == IF r_out > new_r_out THEN r_out - new_r_out ELSE 0
                 new_r_in_2 == new_r_in + victim_amount
             IN  IF new_r_in_2 = 0 THEN 0
                 ELSE LET new_r_out_2 == k \div new_r_in_2
                          final_r_out == new_r_out_2 + (amount_out * 997) \div 1000
                      IN  IF final_r_out = 0 THEN 0
                          ELSE LET final_r_in == k \div final_r_out
                                   amount_back == IF new_r_in_2 > final_r_in
                                                  THEN new_r_in_2 - final_r_in ELSE 0
                               IN  IF amount_back > x THEN amount_back - x ELSE 0

\* enhanced_sandwich.rs 105-121: <<profit, derivative>>
calculate_profit_and_derivative(x, victim_amount, r_in, r_out) ==
    LET profit == calculate_simple_profit(x, victim_amount, r_in, r_out)
        h == x \div 1000 + 1
        profit_plus == calculate_simple_profit(x + h, victim_amount, r_in, r_out)
    IN  << profit,
           (IF profit_plus > profit THEN profit_plus - profit ELSE 0) \div h >>

Min(a, b) == IF a < b THEN a ELSE b

\* enhanced_sandwich.rs 70-90: the iterations that are left, from the state
\* <<x, best_profit, best_x>>; yields <<best_profit, best_x>>.  The update
\* (profit * 10^18 / derivative) / 10^18 is profit / derivative.
RECURSIVE newton_iterations(_, _, _, _, _, _, _)
newton_iterations(left, x, best_profit, best_x, victim_amount, reserve_in, reserve_out) ==
    IF left = 0 THEN <<best_profit, best_x>>
    ELSE LET pd == calculate_profit_and_derivative(x, victim_amount, reserve_in, reserve_out)
             better == pd[1] > best_profit
             bp == IF better THEN pd[1] ELSE best_profit
             bx == IF better THEN x ELSE best_x
         IN  IF pd[2] > DerivativeFloor
             THEN newton_iterations(left - 1,
                      Min(Min(x + pd[1] \div pd[2], MaxPositionSize), reserve_in \div 5),
                      bp, bx, victim_amount, reserve_in, reserve_out)
             ELSE <<bp, bx>>

\* enhanced_sandwich.rs 70-90: the values of x that the iterations pass to
\* calculate_profit_and_derivative, in order.
RECURSIVE newton_candidates(_, _, _, _, _)
newton_candidates(left, x, victim_amount, reserve_in, reserve_out) ==
    IF left = 0 THEN <<>>
    ELSE LET pd == calculate_profit_and_derivative(x, victim_amount, reserve_in, reserve_out)
         IN  IF pd[2] > DerivativeFloor
             THEN <<x>> \o newton_candidates(left - 1,
                      Min(Min(x + pd[1] \div pd[2], MaxPositionSize), reserve_in \div 5),
                      victim_amount, reserve_in, reserve_out)
             ELSE <<x>>

\* enhanced_sandwich.rs 157-168, base_fee in gwei: 400 000 gas at base_fee.
estimate_gas_cost(base_fee) == (400000 * base_fee) \div WeiUnitGwei

\* enhanced_sandwich.rs 58-103
calculate_advanced_sandwich(victim_amount, reserve_in, reserve_out, base_fee) ==
    LET best == newton_iterations(NewtonIterations, reserve_in \div 20, 0, 0,
                                  victim_amount, reserve_in, reserve_out)
    IN  IF best[1] < EnhancedMinProfitWei
        THEN [NoSandwich EXCEPT !.profit = best[1],
                                !.gas_cost = estimate_gas_cost(base_fee)]
        ELSE OptimalSandwich(best[2], (best[2] * 98) \div 100, best[1],
                             estimate_gas_cost(base_fee))

\* One call of calculate_advanced_sandwich; Some(..) is an accepted sandwich.
\* A rejected call keeps the profit it found and the gas cost it would have
\* reported.
AdvancedSandwich(base_fee) ==
    /\ opt.stage = "input"
    /\ LET r == calculate_advanced_sandwich(opt.victim_amount, opt.reserve_in,
                                            opt.reserve_out, base_fee)
       IN  opt' = [opt EXCEPT !.stage = "decided", !.fn = "newton",
                              !.result = r, !.emitted = r.some]
    /\ UNCHANGED <<mvars, gvars, bvars, xvars, arb, rec, pipe>>

\* Pools and victims of calculate_advanced_sandwich: those of InitO, a pool
\* of 1100 ETH and a victim of 25 ETH.
DeepReserves == ReserveValues \cup {220000}
LargeVictimAmounts == VictimAmounts \cup {5000}
InitODeep ==
    opt \in {OptInput(v, ri, ro) :
                v \in LargeVictimAmounts, ri \in DeepReserves, ro \in ReserveValues}
NextODeep == \E f \in BaseFees : AdvancedSandwich(f)

NextO ==
    \/ BisectEnter
    \/ BisectStep
    \/ BisectReturn
    \/ TokenToEthAccept
    \/ \E f \in BaseFees : AdvancedSandwich(f)

(***************************************************************************)
(* Part V.  The sizing of an arbitrage: ArbitrageStrategy::                *)
(* calculate_arbitrage_profit and binary_search_optimal_amount, which call *)
(* each other.  Amounts are in units of 0.01 ETH.                          *)
(***************************************************************************)
\* arbitrage.rs 298-310 hands out one reserve pair per hop; a hop is
\* <<reserve of the token paid in, reserve of the token received>>, the
\* orientation that lines 184-188 select.
PoolReserves == {200, 400}
ArbPoolLists ==
    UNION {[1..n -> PoolReserves \X PoolReserves] : n \in 2..3}

\* arbitrage.rs 177-191: the swaps from hop i on.
RECURSIVE swap_path(_, _, _)
swap_path(pools, i, current_amount) ==
    IF i > Len(pools) THEN current_amount
    ELSE swap_path(pools, i + 1,
                   get_amount_out(current_amount, pools[i][1], pools[i][2])[1])

\* arbitrage.rs 177-197: the profit of sending test_amount round the path.
path_profit(pools, test_amount) ==
    LET current_amount == swap_path(pools, 1, test_amount)
    IN  IF current_amount > test_amount THEN current_amount - test_amount ELSE 0

\* arbitrage.rs 325-328
ArbitrageProfit(profit, optimal_amount) ==
    [profit |-> profit, optimal_amount |-> optimal_amount]

\* One activation of binary_search_optimal_amount(.., true) together with
\* the calculate_arbitrage_profit(.., test_amount) that called it and waits
\* for its value (lines 200 and 218-221).
SearchFrame(test_amount, profit) ==
    [test_amount |-> test_amount, profit |-> profit,
     low |-> ArbLow, high |-> ArbHigh, best_amount |-> 0, best_profit |-> 0]

ArbInput(pools) ==
    [stage |-> "input", pools |-> pools, stack |-> <<>>, evals |-> 0,
     result |-> ArbitrageProfit(0, 0)]

IdleA == arb = [ArbInput(<<>>) EXCEPT !.stage = "idle"]
InitA == arb \in {ArbInput(pools) : pools \in ArbPoolLists}

\* arbitrage.rs 75-76 and 177-205: find_triangular_arbitrage calls
\* calculate_arbitrage_profit with 1 ETH.  An unprofitable amount makes
\* binary_search_optimal_amount return 0 at once (lines 214-216).
ArbCalculate ==
    /\ arb.stage = "input"
    /\ LET profit == path_profit(arb.pools, ArbTestAmount)
       IN  arb' = IF profit > 0
                  THEN [arb EXCEPT !.stage = "search",
                                   !.stack = <<SearchFrame(ArbTestAmount, profit)>>]
                  ELSE [arb EXCEPT !.stage = "returned",
                                   !.result = ArbitrageProfit(profit, 0)]
    /\ UNCHANGED <<mvars, gvars, bvars, xvars, opt, rec, pipe>>

\* arbitrage.rs 223-240 in the innermost activation: one test of
\* `low <= high`.  The body calls calculate_arbitrage_profit(mid), which for
\* a profitable mid enters a new binary search (line 200) before it returns;
\* the stack of the thread holds MaxStackDepth of them.  When the loop is
\* left, best_amount goes back to the waiting calculate_arbitrage_profit,
\* whose value the caller's loop then uses in lines 227-237.
ArbSearch ==
    /\ arb.stage = "search"
    /\ LET d == Len(arb.stack)
           f == arb.stack[d]
           mid == (f.low + f.high) \div 2
           profit == path_profit(arb.pools, mid)
           returned == ArbitrageProfit(f.profit, f.best_amount)
       IN  arb' =
             IF f.low <= f.high
             THEN IF profit > 0
                  THEN IF d >= MaxStackDepth
                       THEN [arb EXCEPT !.stage = "overflow", !.evals = @ + 1]
                       ELSE [arb EXCEPT !.stack = Append(@, SearchFrame(mid, profit)),
                                        !.evals = @ + 1]
                  ELSE [arb EXCEPT !.stack[d].high = mid - 1, !.evals = @ + 1]
             ELSE IF d = 1
                  THEN [arb EXCEPT !.stage = "returned", !.stack = <<>>,
                                   !.result = returned]
                  ELSE LET g == arb.stack[d - 1]
                           better == returned.profit > g.best_profit
                       IN  [arb EXCEPT !.stack = Append(SubSeq(@, 1, d - 2),
                                [g EXCEPT !.best_profit = IF better THEN returned.profit ELSE @,
                                          !.best_amount = IF better THEN f.test_amount ELSE @,
                                          !.low = f.test_amount + 1])]
    /\ UNCHANGED <<mvars, gvars, bvars, xvars, opt, rec, pipe>>

NextA ==
    \/ ArbCalculate
    \/ ArbSearch

(***************************************************************************)
(* Part VI.  The arbitrage records: ArbitrageDetails built by              *)
(* find_triangular_arbitrage, find_cross_dex_arbitrage and the simulator's *)
(* create_test_arbitrage, ArbitragePath built by find_multi_dex_arbitrage, *)
(* and the transaction builders that index the first pool.  Profits are in *)
(* units of 0.01 ETH.                                                      *)
(***************************************************************************)
\* Address::zero() and the tokens named in advanced_features.rs 46-48.
ZeroAddress == 0
Weth == 1
Usdc == 2
Dai == 3

\* advanced_features.rs 51-63
complex_paths(token) ==
    << <<Weth, token, Usdc, Weth>>,
       <<Weth, token, Dai, Weth>>,
       <<Weth, Usdc, token, Dai, Weth>>,
       <<Weth, token, Usdc, Dai, Weth>>,
       <<Weth, Dai, Usdc, token, Weth>>,
       <<Weth, token, Usdc, Dai, token, Weth>> >>

\* tx.from, which enhanced_mempool.rs 92 passes as the token.
TokenAddress == 4

\* The record of one construction.  `pools` is ArbitrageDetails.pools, and
\* ArbitragePath.dexes for a multi-DEX path; `built` says that the
\* function returned the record (Some / pushed) and not None.
ArbRecord(kind, path, pools, expected_profit, gas_estimate, built) ==
    [kind |-> kind, path |-> path, pools |-> pools,
     expected_profit |-> expected_profit, gas_estimate |-> gas_estimate,
     built |-> built]

RecInput(base_fee) ==
    [stage |-> "input", base_fee |-> base_fee,
     record |-> ArbRecord("none", <<>>, <<>>, 0, 0, FALSE)]

IdleR == rec = [RecInput(30) EXCEPT !.stage = "idle"]
\* base_fee is the base fee of the latest block, in gwei.
InitR == rec \in {RecInput(f) : f \in BaseFees}

\* advanced_features.rs 182-190
calculate_path_profit(path) ==
    ArbRecord("multi_dex", path, [i \in 1..(Len(path) - 1) |-> "UniswapV2"],
              PlaceholderPathProfit, 300000 * Len(path), TRUE)

\* advanced_features.rs 67: `arb_path.expected_profit > self.min_arb_profit`
accepts_path(expected_profit) == expected_profit > MinArbProfit

\* advanced_features.rs 65-71, for the path number i.
MultiDexPath(i) ==
    /\ rec.stage = "input"
    /\ LET arb_path == calculate_path_profit(complex_paths(TokenAddress)[i])
       IN  rec' = [rec EXCEPT !.stage = "decided",
                      !.record = [arb_path EXCEPT
                                    !.built = accepts_path(arb_path.expected_profit)]]
    /\ UNCHANGED <<mvars, gvars, bvars, xvars, opt, arb, pipe>>

\* arbitrage.rs 57-97, once calculate_arbitrage_profit (line 76) has
\* returned for the three pools of the path.
TriangularRecord ==
    /\ rec.stage = "input"
    /\ arb.stage = "returned"
    /\ Len(arb.pools) = 3
    /\ rec' = [rec EXCEPT !.stage = "decided",
                  !.record = ArbRecord("triangular",
                                 <<Weth, TokenAddress, Usdc, Weth>>, arb.pools,
                                 arb.result.profit, 400000,
                                 arb.result.profit > MinProfitThreshold)]
    /\ UNCHANGED <<mvars, gvars, bvars, xvars, opt, arb, pipe>>

\* The profits that the scan of the DEX pairs (arbitrage.rs 103-146) can
\* leave in best_profit.
CrossDexProfits == {0, 5, 10, 11, 20}

\* arbitrage.rs 148-168, for the best pair of pools found in lines 116-146.
CrossDexRecord(best_profit) ==
    /\ rec.stage = "input"
    /\ rec' = [rec EXCEPT !.stage = "decided",
                  !.record = ArbRecord("cross_dex", <<Weth, TokenAddress, Weth>>,
                                 <<"buy_pool", "sell_pool">>, best_profit, 350000,
                                 best_profit > MinProfitThreshold)]
    /\ UNCHANGED <<mvars, gvars, bvars, xvars, opt, arb, pipe>>

\* simulator.rs 216-233
create_test_arbitrage ==
    ArbRecord("test", <<ZeroAddress, ZeroAddress, ZeroAddress>>, <<>>,
              TestArbProfit, 400000, TRUE)

\* simulator.rs 172-185: test_strategy_profitability builds the record.
TestArbitrage ==
    /\ rec.stage = "input"
    /\ rec' = [rec EXCEPT !.stage = "decided", !.record = create_test_arbitrage]
    /\ UNCHANGED <<mvars, gvars, bvars, xvars, opt, arb, pipe>>

\* simulator.rs 138-148 (called in line 87) and bundle.rs 80-100 (called in
\* mod.rs 81): `details.pools[0]` panics on an empty vector.
BuildArbitrageTx ==
    /\ rec.stage = "decided"
    /\ rec.record.built
    /\ rec.record.kind \in {"triangular", "cross_dex", "test"}
    /\ rec' = [rec EXCEPT !.stage = IF Len(rec.record.pools) = 0
                                    THEN "aborted" ELSE "tx_built"]
    /\ UNCHANGED <<mvars, gvars, bvars, xvars, opt, arb, pipe>>

NextR ==
    \/ \E i \in 1..Len(complex_paths(TokenAddress)) : MultiDexPath(i)
    \/ TriangularRecord
    \/ \E p \in CrossDexProfits : CrossDexRecord(p)
    \/ TestArbitrage
    \/ BuildArbitrageTx

(***************************************************************************)
(* Part VII.  The pipeline of one transaction: StrategyManager::           *)
(* analyze_transaction simulates every candidate and keeps the profitable  *)
(* ones, analyze_with_all_strategies ranks them and executes the first.    *)
(* Amounts are in gwei.                                                    *)
(***************************************************************************)
saturating_sub(a, b) == IF a > b THEN a - b ELSE 0

\* types.rs 5-14: the fields of MEVOpportunity that the pipeline reads.
MEVOpportunity(kind, estimated_profit, gas_cost, priority, expiry_block) ==
    [kind |-> kind, estimated_profit |-> estimated_profit, gas_cost |-> gas_cost,
     priority |-> priority, expiry_block |-> expiry_block]

\* sandwich.rs 321-330
calculate_priority(profit) ==
    IF profit > 1000000000 THEN 10
    ELSE IF profit > 500000000 THEN 8 ELSE 5

\* get_current_block().await + 1 (sandwich.rs 160, arbitrage.rs 163);
\* the head can move between the strategies.
ExpiryBlocks == {StartBlock + 1, StartBlock + 2}
\* Profits of accepted opportunities (above 0.1 ETH; sandwich from 0.1 ETH).
SandwichProfits == {100000000, 145000000}
CrossDexOpProfits == {135000000, 155000000}

\* sandwich.rs 142-161
SandwichOps ==
    {<<>>} \cup {<<MEVOpportunity("sandwich", p, SandwichOpGasCost,
                                  calculate_priority(p), e)>> :
                    p \in SandwichProfits, e \in ExpiryBlocks}
\* arbitrage.rs 150-164
CrossDexOps ==
    {<<>>} \cup {<<MEVOpportunity("cross_dex", p, CrossDexGasCost, 8, e)>> :
                    p \in CrossDexOpProfits, e \in ExpiryBlocks}

\* mod.rs 49-55 and arbitrage.rs 42-52: the sandwich opportunity, then the
\* arbitrage opportunities token by token (two tokens here).  A triangular
\* opportunity needs calculate_arbitrage_profit to return for a profitable
\* path, which Part V shows it never does; the lists hold none.
CandidateLists ==
    {s \o c \o d : s \in SandwichOps, c \in CrossDexOps, d \in CrossDexOps}

\* types.rs 66-71; ok = FALSE stands for Err(..).
SimulationResult(success, profit, gas_used) ==
    [ok |-> TRUE, success |-> success, profit |-> profit, gas_used |-> gas_used]
SimulationErr == [ok |-> FALSE, success |-> FALSE, profit |-> 0, gas_used |-> 0]

\* The outcomes of eth_call and eth_estimateGas for one transaction.
DryRun(call_ok, estimate_ok, gas) ==
    [call_ok |-> call_ok, estimate_ok |-> estimate_ok, gas |-> gas]
DryRuns ==
    {DryRun(FALSE, FALSE, 0), DryRun(TRUE, FALSE, 0)}
        \cup {DryRun(TRUE, TRUE, g) : g \in {150000, 1000000}}

\* simulator.rs 108-136
simulate_transaction(d) ==
    IF d.call_ok
    THEN IF d.estimate_ok THEN SimulationResult(TRUE, 0, d.gas) ELSE SimulationErr
    ELSE SimulationResult(FALSE, 0, RevertGasUsed)

\* simulator.rs 25-83 with the victim's dry run not tested.
simulate_sandwich_skips_victim(block_ok, frontrun, victim, backrun) ==
    IF ~block_ok THEN SimulationErr
    ELSE LET frontrun_result == simulate_transaction(frontrun)
             backrun_result == simulate_transaction(backrun)
         IN  IF ~frontrun_result.ok THEN SimulationErr
             ELSE IF ~frontrun_result.success
             THEN SimulationResult(FALSE, 0, frontrun_result.gas_used)
             ELSE IF ~backrun_result.ok THEN SimulationErr
             ELSE IF ~backrun_result.success
             THEN SimulationResult(FALSE, 0, frontrun_result.gas_used)
             ELSE LET total_gas == frontrun_result.gas_used + backrun_result.gas_used
                      gas_cost == total_gas * SimGasPriceGwei
                  IN  SimulationResult(TRUE, saturating_sub(BalanceChange, gas_cost),
                                       total_gas)
\* simulator.rs 25-83
simulate_sandwich(block_ok, frontrun, victim, backrun) ==
    IF ~block_ok THEN SimulationErr
    ELSE LET frontrun_result == simulate_transaction(frontrun)
             victim_result == simulate_transaction(victim)
             backrun_result == simulate_transaction(backrun)
         IN  IF ~frontrun_result.ok THEN SimulationErr
             ELSE IF ~frontrun_result.success
             THEN SimulationResult(FALSE, 0, frontrun_result.gas_used)
             ELSE IF ~victim_result.ok THEN SimulationErr
             ELSE IF ~victim_result.success
             THEN SimulationResult(FALSE, 0, frontrun_result.gas_used)
             ELSE IF ~backrun_result.ok THEN SimulationErr
             ELSE IF ~backrun_result.success
             THEN SimulationResult(FALSE, 0,
                      frontrun_result.gas_used + victim_result.gas_used)
             ELSE LET total_gas == frontrun_result.gas_used + backrun_result.gas_used
                      gas_cost == total_gas * SimGasPriceGwei
                  IN  SimulationResult(TRUE, saturating_sub(BalanceChange, gas_cost),
                                       total_gas)

\* simulator.rs 85-106; a cross-DEX opportunity carries two pools, so
\* build_arbitrage_tx succeeds.
simulate_arbitrage(expected_profit, arb_tx) ==
    LET result == simulate_transaction(arb_tx)
    IN  IF ~result.ok THEN SimulationErr
        ELSE IF result.success
        THEN SimulationResult(TRUE,
                 saturating_sub(expected_profit, result.gas_used * SimGasPriceGwei),
                 result.gas_used)
        ELSE result

\* mod.rs 59-60: `if let Ok(sim_result) = .. { if sim_result.profit > 0 {`
is_profitable(sim_result) == sim_result.ok /\ sim_result.profit > 0

PipeInput(ops) ==
    [stage |-> "simulate", ops |-> ops, i |-> 1, sims |-> <<>>,
     profitable_ops |-> <<>>, all_opportunities |-> <<>>, executed |-> 0]

IdleP == pipe = [PipeInput(<<>>) EXCEPT !.stage = "idle"]
InitP == pipe \in {PipeInput(ops) : ops \in CandidateLists}

\* mod.rs 58-64, one iteration; profitable_ops holds positions of `ops`,
\* sims keeps what the dry runs answered and what simulate returned.
Simulated(block_ok, outs, sim_result) ==
    pipe' = [pipe EXCEPT
               !.i = @ + 1,
               !.sims = Append(@, [block_ok |-> block_ok, outs |-> outs,
                                   result |-> sim_result]),
               !.profitable_ops = IF is_profitable(sim_result)
                                  THEN Append(@, pipe.i) ELSE @]

SimulateSandwichOp(block_ok, frontrun, victim, backrun) ==
    /\ pipe.stage = "simulate"
    /\ pipe.i <= Len(pipe.ops)
    /\ pipe.ops[pipe.i].kind = "sandwich"
    /\ Simulated(block_ok, <<frontrun, victim, backrun>>,
                 simulate_sandwich(block_ok, frontrun, victim, backrun))
    /\ UNCHANGED <<mvars, gvars, bvars, xvars, opt, arb, rec>>

SimulateArbitrageOp(arb_tx) ==
    /\ pipe.stage = "simulate"
    /\ pipe.i <= Len(pipe.ops)
    /\ pipe.ops[pipe.i].kind = "cross_dex"
    /\ Simulated(TRUE, <<arb_tx>>,
                 simulate_arbitrage(pipe.ops[pipe.i].estimated_profit, arb_tx))
    /\ UNCHANGED <<mvars, gvars, bvars, xvars, opt, arb, rec>>

\* enhanced_mempool.rs 106-107: the key of the comparator.
net_profit(op) == saturating_sub(op.estimated_profit, op.gas_cost)

\* enhanced_mempool.rs 105-108: Vec::sort_by is stable, so a position k is
\* placed behind every position already there whose key is not smaller.
insert_by_net(sorted, k, ops) ==
    LET ahead == {j \in 1..Len(sorted) :
                     net_profit(ops[sorted[j]]) >= net_profit(ops[k])}
        n == Cardinality(ahead)
    IN  SubSeq(sorted, 1, n) \o <<k>> \o SubSeq(sorted, n + 1, Len(sorted))

RECURSIVE sort_by_net(_, _)
sort_by_net(positions, ops) ==
    IF positions = <<>> THEN <<>>
    ELSE insert_by_net(sort_by_net(SubSeq(positions, 1, Len(positions) - 1), ops),
                       positions[Len(positions)], ops)

\* mod.rs 66 and enhanced_mempool.rs 68-69, 104-113: analyze_transaction
\* returns, the list is sorted and its first element is executed.
RankAndExecute ==
    /\ pipe.stage = "simulate"
    /\ pipe.i > Len(pipe.ops)
    /\ LET sorted == sort_by_net(pipe.profitable_ops, pipe.ops)
       IN  pipe' = [pipe EXCEPT !.stage = "executed",
                       !.all_opportunities = sorted,
                       !.executed = IF sorted = <<>> THEN 0 ELSE sorted[1]]
    /\ UNCHANGED <<mvars, gvars, bvars, xvars, opt, arb, rec>>

NextP ==
    \/ \E block_ok \in BOOLEAN, f \in DryRuns, v \in DryRuns, b \in DryRuns :
          SimulateSandwichOp(block_ok, f, v, b)
    \/ \E d \in DryRuns : SimulateArbitrageOp(d)
    \/ RankAndExecute


(***************************************************************************)
(* Part VIII.  TxSimulator::simulate_sandwich one provider call at a time. *)
(***************************************************************************)
\* The transactions of SandwichDetails in the order of simulator.rs 33-56.
DryRunOrder == <<"frontrun", "victim", "backrun">>

\* Gas amounts that eth_estimateGas can answer.
GasEstimates == {21000, 150000, 500000, 1000000}
StepDryRuns ==
    {DryRun(FALSE, FALSE, 0), DryRun(TRUE, FALSE, 0)}
        \cup {DryRun(TRUE, TRUE, g) : g \in GasEstimates}

DryInput ==
    [stage |-> "get_block", calls |-> <<>>, outs |-> <<>>,
     result |-> SimulationErr, revert_reason |-> "None"]

IdleD == dry = [DryInput EXCEPT !.stage = "idle"]
InitD == dry = DryInput

\* simulator.rs 27: `get_block_number().await?`
DryGetBlock(block_ok) ==
    /\ dry.stage = "get_block"
    /\ dry' = IF block_ok THEN [dry EXCEPT !.stage = "frontrun"]
                          ELSE [dry EXCEPT !.stage = "returned"]
    /\ UNCHANGED <<mvars, gvars, bvars, opt, arb, rec, pipe, vic, calc, gp>>

\* simulator.rs 34-41, 46-53 and 57-64: where simulate_sandwich goes on
\* a dry run that did not succeed; this one goes on to the next
\* transaction.
after_failed_dry_run_continues(stage) ==
    IF stage = "frontrun" THEN "victim"
    ELSE IF stage = "victim" THEN "backrun" ELSE "returned"
\* simulator.rs 34-41, 46-53 and 57-64: `return Ok(SimulationResult { .. })`
after_failed_dry_run(stage) == "returned"

\* The revert_reason of the three early returns (lines 39, 51 and 62):
\* the error text of the failed call, for the victim a fixed text.
revert_reason_of(stage) ==
    IF stage = "victim" THEN "Some(Victim transaction would fail)"
    ELSE "Some(error of the call)"

\* simulator.rs 33-82: the dry run of the transaction that is due
\* (simulate_transaction, lines 108-136), and what follows it up to the
\* next provider call or the return.
DryRunTx(d) ==
    /\ dry.stage \in {"frontrun", "victim", "backrun"}
    /\ LET r == simulate_transaction(d)
           seen == [dry EXCEPT !.calls = Append(@, dry.stage),
                               !.outs = Append(@, d)]
           gas(j) == seen.outs[j].gas
       IN  dry' =
             IF ~r.ok THEN [seen EXCEPT !.stage = "returned"]
             ELSE IF ~r.success
             THEN [seen EXCEPT
                     !.stage = after_failed_dry_run(dry.stage),
                     !.revert_reason = revert_reason_of(dry.stage),
                     !.result = SimulationResult(FALSE, 0,
                                   IF dry.stage = "backrun" THEN gas(1) + gas(2)
                                   ELSE IF dry.stage = "victim" THEN gas(1)
                                   ELSE r.gas_used)]
             ELSE IF dry.stage = "frontrun" THEN [seen EXCEPT !.stage = "victim"]
             ELSE IF dry.stage = "victim" THEN [seen EXCEPT !.stage = "backrun"]
             ELSE [seen EXCEPT
                     !.stage = "returned",
                     !.result = SimulationResult(TRUE,
                                   saturating_sub(BalanceChange,
                                       (gas(1) + gas(3)) * SimGasPriceGwei),
                                   gas(1) + gas(3))]
    /\ UNCHANGED <<mvars, gvars, bvars, opt, arb, rec, pipe, vic, calc, gp>>

NextD ==
    \/ \E block_ok \in BOOLEAN : DryGetBlock(block_ok)
    \/ \E d \in StepDryRuns : DryRunTx(d)

(***************************************************************************)
(* Part IX.  The analysis of one victim by SandwichStrategy::analyze, and  *)
(* the two victim validators.  Values are in gwei.                         *)
(***************************************************************************)
\* The six swap calls of the router that sandwich.rs 60-89 matches.
EthToTokenCalls ==
    {"SwapExactETHForTokens",
     "SwapExactETHForTokensSupportingFeeOnTransferTokens"}
TokenToEthCalls ==
    {"SwapExactTokensForETH",
     "SwapExactTokensForETHSupportingFeeOnTransferTokens"}
TokenToTokenCalls ==
    {"SwapExactTokensForTokens",
     "SwapExactTokensForTokensSupportingFeeOnTransferTokens"}
SwapCalls == EthToTokenCalls \cup TokenToEthCalls \cup TokenToTokenCalls

\* tx.input: the calldata of a swap call, of another call of the router, or
\* bytes that are no call of the router.
Calldata == SwapCalls \cup {"AddLiquidity", "not a router call"}

\* UniV2RouterCalls::decode of crate::address_book, whose file is not among
\* the sources: the call that the calldata encodes, or an error.
decode(input) ==
    IF input = "not a router call" THEN [ok |-> FALSE, call |-> "none"]
    ELSE [ok |-> TRUE, call |-> input]

\* The victim: the fields of Transaction that the analysis reads, the
\* length of the decoded path, and what calculate_optimal_sandwich does for
\* the victim's pool (Part IV): it aborts, returns a profit below
\* min_profit_wei, or returns one that is accepted.
VictimValues == {0, MinVictimValue - 1, MinVictimValue}
VictimGasPricesGwei == {None, Some(0), Some(20), Some(MaxVictimGasPrice),
                        Some(MaxVictimGasPrice + 1)}
Recipients == {None, Some(1)}
PathLengths == {1, 2}
OptimizerOutcomes == {"aborts", "below min_profit", "accepted"}

VictimTx(value, gas_price, to, input) ==
    [value |-> value, gas_price |-> gas_price, to |-> to, input |-> input]

VicInput(tx, path_len, optimizer) ==
    [stage |-> "input", tx |-> tx, path_len |-> path_len, optimizer |-> optimizer,
     opportunities |-> 0]

IdleV == vic = [VicInput(VictimTx(0, None, None, "not a router call"), 1, "aborts")
                   EXCEPT !.stage = "idle"]
InitV ==
    vic \in {VicInput(VictimTx(v, g, t, i), n, o) :
                v \in VictimValues, g \in VictimGasPricesGwei, t \in Recipients,
                i \in Calldata, n \in PathLengths, o \in OptimizerOutcomes}

\* sandwich.rs 39-53
validate_profitable_victim(tx, min_value) ==
    IF tx.value < min_value THEN FALSE
    ELSE IF tx.gas_price.some
            /\ (tx.gas_price.v > MaxVictimGasPrice \/ tx.gas_price.v = 0)
    THEN FALSE
    ELSE TRUE

\* enhanced_sandwich.rs 41-56
validate_victim_transaction(tx) ==
    IF tx.value < MinVictimValue THEN FALSE
    ELSE IF tx.gas_price.some /\ tx.gas_price.v > MaxVictimGasPrice THEN FALSE
    ELSE tx.to.some

\* sandwich.rs 54-58 and 90-95: the calldata is no swap call; nothing is
\* pushed.
AnalyzeOther ==
    /\ vic.stage = "input"
    /\ ~decode(vic.tx.input).ok \/ decode(vic.tx.input).call \notin SwapCalls
    /\ vic' = [vic EXCEPT !.stage = "returned"]
    /\ UNCHANGED <<mvars, gvars, bvars, opt, arb, rec, pipe, dry, calc, gp>>

\* sandwich.rs 60-69 with 164-173: analyze_eth_to_token_swap returns None.
AnalyzeEthToToken ==
    /\ vic.stage = "input"
    /\ decode(vic.tx.input).ok /\ decode(vic.tx.input).call \in EthToTokenCalls
    /\ vic' = [vic EXCEPT !.stage = "returned"]
    /\ UNCHANGED <<mvars, gvars, bvars, opt, arb, rec, pipe, dry, calc, gp>>

\* sandwich.rs 80-89 with 175-184: analyze_token_to_token_swap returns None.
AnalyzeTokenToToken ==
    /\ vic.stage = "input"
    /\ decode(vic.tx.input).ok /\ decode(vic.tx.input).call \in TokenToTokenCalls
    /\ vic' = [vic EXCEPT !.stage = "returned"]
    /\ UNCHANGED <<mvars, gvars, bvars, opt, arb, rec, pipe, dry, calc, gp>>

\* sandwich.rs 70-79 with 97-162: analyze_token_to_eth_swap.  The path test
\* (104-106), the optimizer (116-125), then build_frontrun_tx and
\* build_backrun_tx, whose `_victim_tx.to.unwrap()` (lines 281 and 298)
\* panics for a transaction without recipient.
AnalyzeTokenToEth ==
    /\ vic.stage = "input"
    /\ decode(vic.tx.input).ok /\ decode(vic.tx.input).call \in TokenToEthCalls
    /\ vic' = IF vic.path_len < 2 THEN [vic EXCEPT !.stage = "returned"]
              ELSE IF vic.optimizer = "aborts" THEN [vic EXCEPT !.stage = "aborted"]
              ELSE IF vic.optimizer = "below min_profit"
              THEN [vic EXCEPT !.stage = "returned"]
              ELSE IF ~vic.tx.to.some THEN [vic EXCEPT !.stage = "aborted"]
              ELSE [vic EXCEPT !.stage = "returned", !.opportunities = 1]
    /\ UNCHANGED <<mvars, gvars, bvars, opt, arb, rec, pipe, dry, calc, gp>>

NextV ==
    \/ AnalyzeOther
    \/ AnalyzeEthToToken
    \/ AnalyzeTokenToToken
    \/ AnalyzeTokenToEth

(***************************************************************************)
(* Part X.  ArbitrageStrategy::find_cross_dex_arbitrage up to the sizing   *)
(* of a pair of pools: the pool descriptors, their prices and the price    *)
(* differences, in U256 arithmetic of CalcBits bits.                       *)
(***************************************************************************)
CalcMax == 2^CalcBits - 1
U64Max == 2^U64Bits - 1

\* U256 of ethers (uint crate): `*`, `+` and `-` panic on overflow, `/`
\* panics on a zero divisor, as_u64 panics when the value does not fit.
\* A result is Some(value) or, for a panic, None.
checked_mul(a, b) == IF b # 0 /\ a > CalcMax \div b THEN None ELSE Some(a * b)
checked_div(a, b) == IF b = 0 THEN None ELSE Some(a \div b)
checked_sub(a, b) == IF b > a THEN None ELSE Some(a - b)
as_u64(a) == IF a > U64Max THEN None ELSE Some(a)

\* arbitrage.rs 19-27: the keys of dex_factories.
Dexes == {"UniswapV2", "SushiSwap", "PancakeSwap"}

\* Leading byte of the addresses: WETH 0xC02a.., USDC 0xA0b8.., DAI 0x6B17..;
\* the token under analysis stands for one above WETH (USDT, 0xdAC1..).
AddressPrefix == [a \in {Weth, Usdc, Dai, TokenAddress} |->
                    CASE a = Weth -> 192 [] a = Usdc -> 160 [] a = Dai -> 107
                      [] OTHER -> 218]
address_lt(a, b) == AddressPrefix[a] < AddressPrefix[b]

\* arbitrage.rs 298-310: the descriptor of the pool of a pair on a DEX.  The
\* reserves are those of the pool on the chain.
get_pool_info(token0, token1, dex, reserves) ==
    [token0 |-> token0, token1 |-> token1,
     reserve0 |-> reserves[1], reserve1 |-> reserves[2], dex_type |-> dex]

\* arbitrage.rs 284-290
calculate_price(pool, is_token0_weth) ==
    LET num == checked_mul(IF is_token0_weth THEN pool.reserve0 ELSE pool.reserve1,
                           PriceScale)
        den == IF is_token0_weth THEN pool.reserve1 ELSE pool.reserve0
    IN  IF ~num.some THEN None ELSE checked_div(num.v, den)

\* arbitrage.rs 119 and 126: ((sell_price - buy_price) * 10000) / buy_price,
\* narrowed to u64 when it is above 30.
price_diff_percent(sell_price, buy_price) ==
    LET diff == checked_sub(sell_price, buy_price)
        prod == IF diff.some THEN checked_mul(diff.v, BasisPoints) ELSE None
        quot == IF prod.some THEN checked_div(prod.v, buy_price) ELSE None
    IN  IF quot.some /\ quot.v > MinPriceDiff
        THEN (IF as_u64(quot.v).some THEN quot ELSE None)
        ELSE quot

\* arbitrage.rs 243-255
calculate_optimal_arb_amount(buy_pool, sell_pool) ==
    LET pool_liquidity == IF buy_pool.reserve0 < sell_pool.reserve0
                          THEN buy_pool.reserve0 ELSE sell_pool.reserve0
        prod == checked_mul(pool_liquidity, MaxImpact)
    IN  IF prod.some THEN checked_div(prod.v, BasisPoints) ELSE None

\* Reserves of a pool: empty, tiny, near each other, and one whose product
\* with PriceScale exceeds CalcMax.
CalcReserves == {0, 1, 20, 21, CalcMax \div PriceScale + 1}
CalcTokens == {Usdc, TokenAddress}

CalcInput(token, reserves) ==
    [stage |-> "get_pools", token |-> token, reserves |-> reserves,
     pools |-> <<>>, prices |-> <<>>, sized |-> {}]

IdleC == calc = [CalcInput(TokenAddress, [d \in Dexes |-> <<0, 0>>])
                    EXCEPT !.stage = "idle"]
InitC ==
    calc \in {CalcInput(token, reserves) :
                 token \in CalcTokens,
                 reserves \in [Dexes -> CalcReserves \X CalcReserves]}

\* arbitrage.rs 105-110: a descriptor and a price for every DEX.
CrossPrices ==
    /\ calc.stage = "get_pools"
    /\ LET pools == [d \in Dexes |-> get_pool_info(Weth, calc.token, d, calc.reserves[d])]
           prices == [d \in Dexes |-> calculate_price(pools[d], TRUE)]
       IN  calc' = IF \E d \in Dexes : ~prices[d].some
                   THEN [calc EXCEPT !.stage = "aborted", !.pools = pools]
                   ELSE [calc EXCEPT !.stage = "compare", !.pools = pools,
                                     !.prices = [d \in Dexes |-> prices[d].v]]
    /\ UNCHANGED <<mvars, gvars, bvars, opt, arb, rec, pipe, dry, vic, gp>>

\* arbitrage.rs 116-127: every ordered pair of DEXes with a higher selling
\* price; the pairs whose difference is above 0.3% are sized.  The order of
\* the pairs (that of a HashMap) does not matter for what is modelled: a
\* panic at any pair ends the task.
CrossCompare ==
    /\ calc.stage = "compare"
    /\ LET pairs == {p \in Dexes \X Dexes :
                        p[1] # p[2] /\ calc.prices[p[2]] > calc.prices[p[1]]}
           diff(p) == price_diff_percent(calc.prices[p[2]], calc.prices[p[1]])
           sized == {p \in pairs : diff(p).some /\ diff(p).v > MinPriceDiff}
       IN  calc' = IF \/ \E p \in pairs : ~diff(p).some
                      \/ \E p \in sized :
                            ~calculate_optimal_arb_amount(calc.pools[p[1]],
                                                          calc.pools[p[2]]).some
                   THEN [calc EXCEPT !.stage = "aborted"]
                   ELSE [calc EXCEPT !.stage = "sizing", !.sized = sized]
    /\ UNCHANGED <<mvars, gvars, bvars, opt, arb, rec, pipe, dry, vic, gp>>

NextC == CrossPrices \/ CrossCompare

(***************************************************************************)
(* Part XI.  BundleBuilder::calculate_optimal_gas_price, called by         *)
(* build_arbitrage_tx, in U256 arithmetic of UintBits bits.                *)
(***************************************************************************)
\* What get_block(Latest) answers: an error, no block, or a block with or
\* without base_fee_per_gas.
BlockAnswers ==
    {[kind |-> "error", base_fee_per_gas |-> None],
     [kind |-> "no block", base_fee_per_gas |-> None]}
    \cup {[kind |-> "block", base_fee_per_gas |-> f] :
             f \in {None, Some(0), Some(10), Some(U256Max - Gwei(PriorityFeeGwei) + 1)}}
Profits == {0, 5, 20, 50, 500, U256Max}
GasEstimatesArb == {0, 1, 3, 7}

GpInput(profit, gas_estimate) ==
    [stage |-> "get_block", profit |-> profit, gas_estimate |-> gas_estimate,
     base_fee |-> 0, result |-> None]

IdleGP == gp = [GpInput(0, 0) EXCEPT !.stage = "idle"]
InitGP == gp \in {GpInput(p, g) : p \in Profits, g \in GasEstimatesArb}

\* bundle.rs 139-143
GpGetBlock(answer) ==
    /\ gp.stage = "get_block"
    /\ gp' = IF answer.kind = "error" THEN [gp EXCEPT !.stage = "failed"]
             ELSE IF answer.kind = "no block" THEN [gp EXCEPT !.stage = "aborted"]
             ELSE [gp EXCEPT !.stage = "compute",
                             !.base_fee = unwrap_or(answer.base_fee_per_gas, 0)]
    /\ UNCHANGED <<mvars, gvars, bvars, opt, arb, rec, pipe, dry, vic, calc>>

\* bundle.rs 154
choose_gas_price_min(target_gas_price, min_gas_price) ==
    IF target_gas_price < min_gas_price THEN target_gas_price ELSE min_gas_price
choose_gas_price(target_gas_price, min_gas_price) ==
    IF target_gas_price > min_gas_price THEN target_gas_price ELSE min_gas_price

\* bundle.rs 146-154; `/`, `*` and `+` of U256 panic on a zero divisor and on
\* overflow.
GpCompute ==
    /\ gp.stage = "compute"
    /\ gp' = IF gp.gas_estimate = 0 THEN [gp EXCEPT !.stage = "aborted"]
             ELSE LET max_gas_price == gp.profit \div gp.gas_estimate
                      min_gas_price == gp.base_fee + Gwei(PriorityFeeGwei)
                  IN  IF max_gas_price * GasSharePercent > U256Max
                      THEN [gp EXCEPT !.stage = "aborted"]
                      ELSE IF min_gas_price > U256Max
                      THEN [gp EXCEPT !.stage = "aborted"]
                      ELSE [gp EXCEPT !.stage = "returned",
                               !.result = Some(choose_gas_price(
                                   (max_gas_price * GasSharePercent) \div 100,
                                   min_gas_price))]
    /\ UNCHANGED <<mvars, gvars, bvars, opt, arb, rec, pipe, dry, vic, calc>>

NextGP ==
    \/ \E answer \in BlockAnswers : GpGetBlock(answer)
    \/ GpCompute


(***************************************************************************)
(* Specifications.                                                         *)
(***************************************************************************)
IdleX == IdleD /\ IdleV /\ IdleC /\ IdleGP
IdleN == IdleO /\ IdleA /\ IdleR /\ IdleP /\ IdleX
Init == InitM /\ IdleG /\ IdleB /\ IdleN
Next == NextM
Spec == Init /\ [][Next]_vars

\* The same program, observed from the state InitRetention on.
InitAfterRetention == InitRetention /\ IdleG /\ IdleB /\ IdleN
SpecRetention == InitAfterRetention /\ [][Next]_vars

\* The gas prices of the sandwich built for any observed victim.
InitGas == InitM /\ InitG /\ IdleB /\ IdleN
SpecGas == InitGas /\ [][NextG]_vars

\* The sandwich optimizers applied to any victim amount and pool.
InitOptimizer == InitM /\ IdleG /\ IdleB /\ InitO /\ IdleA /\ IdleR /\ IdleP /\ IdleX
SpecOptimizer == InitOptimizer /\ [][NextO]_vars

\* The arbitrage sizing applied to any cyclic path of two or three hops.
InitArbitrage == InitM /\ IdleG /\ IdleB /\ IdleO /\ InitA /\ IdleR /\ IdleP /\ IdleX
SpecArbitrage == InitArbitrage /\ [][NextA]_vars

\* The construction of arbitrage records, the triangular one after the
\* sizing of its path.
InitRecords == InitM /\ IdleG /\ IdleB /\ IdleO /\ InitA /\ InitR /\ IdleP /\ IdleX
NextRecords == NextA \/ NextR
SpecRecords == InitRecords /\ [][NextRecords]_vars

\* The pipeline applied to any list of candidates and any dry-run outcomes.
InitPipeline == InitM /\ IdleG /\ IdleB /\ IdleO /\ IdleA /\ IdleR /\ InitP /\ IdleX
SpecPipeline == InitPipeline /\ [][NextP]_vars

\* simulate_sandwich under any answers of the node.
InitSimulator == InitM /\ IdleG /\ IdleB /\ IdleO /\ IdleA /\ IdleR /\ IdleP /\ InitD /\ IdleV /\ IdleC /\ IdleGP
SpecSimulator == InitSimulator /\ [][NextD]_vars

\* SandwichStrategy::analyze applied to any victim transaction.
InitVictim == InitM /\ IdleG /\ IdleB /\ IdleO /\ IdleA /\ IdleR /\ IdleP /\ IdleD /\ InitV /\ IdleC /\ IdleGP
SpecVictim == InitVictim /\ [][NextV]_vars

\* The price comparison of find_cross_dex_arbitrage for any token and pools.
InitCrossDex == InitM /\ IdleG /\ IdleB /\ IdleO /\ IdleA /\ IdleR /\ IdleP /\ IdleD /\ IdleV /\ InitC /\ IdleGP
SpecCrossDex == InitCrossDex /\ [][NextC]_vars

\* calculate_optimal_gas_price for any profit, gas estimate and base fee.
InitGasPrice == InitM /\ IdleG /\ IdleB /\ IdleO /\ IdleA /\ IdleR /\ IdleP /\ IdleD /\ IdleV /\ IdleC /\ InitGP
SpecGasPrice == InitGasPrice /\ [][NextGP]_vars

\* calculate_advanced_sandwich on pools up to 1100 ETH.
InitAdvanced == InitM /\ IdleG /\ IdleB /\ InitODeep /\ IdleA /\ IdleR /\ IdleP /\ IdleX
SpecAdvanced == InitAdvanced /\ [][NextODeep]_vars

\* The bundle builder serving NumTasks concurrent workers.
SpecBundle == Init /\ [][NextB]_vars

(***************************************************************************)
(* Claims about Part I.                                                    *)
(***************************************************************************)

\* C1: however often the stream delivers a hash, at most one worker is ever
\* spawned for it, and a hash that was delivered has exactly one.
C1_OneWorkerPerHash ==
    \A h \in Hashes :
        /\ spawned[h] <= 1
        /\ offers[h] >= 1 => spawned[h] = 1 /\ h \in processed
\* A hash was delivered twice and has one worker.
C1_Witness == \E h \in Hashes : offers[h] >= 2 /\ spawned[h] = 1

\* C2: the throttle counter is tested and incremented atomically: no two
\* workers observe the same value, no increment is lost, and the multi-DEX
\* search starts for exactly one of every ArbCheckPeriod workers tested.
C2_AtomicCounter ==
    /\ \A h, g \in Hashes :
          h # g /\ observed[h] # -1 /\ observed[g] # -1 => observed[h] # observed[g]
    /\ LAST_ARB_CHECK >=
          Cardinality({h \in Hashes : wpc[h] \in {"execute", "await_relay", "done"}})
    /\ arbSearches =
          (Cardinality({h \in Hashes : observed[h] # -1}) + ArbCheckPeriod - 1)
              \div ArbCheckPeriod

\* C3: a step in which the worker of one transaction fails leaves the ingest
\* loop and every other worker as they were, and every transaction the
\* stream delivers is deduplicated and, when new, dispatched.
C3_FailureIsolated ==
    [][ /\ \A h \in Hashes :
              ~Failed(h) /\ Failed(h)' =>
                  /\ ingest' = ingest
                  /\ \A g \in Hashes \ {h} : wpc'[g] = wpc[g]
        /\ \A h \in Hashes :
              offers'[h] = offers[h] + 1 =>
                  /\ h \in processed'
                  /\ h \notin processed => wpc'[h] = "analyze" ]_vars
\* One worker has failed, and a transaction dispatched after that failure
\* has run to its end.
C3_Witness ==
    /\ \E h \in Hashes : wpc[h] = "panicked"
    /\ \E g \in afterFail : wpc[g] = "done"

\* C4: the dedup set never holds more than RetentionN hashes.
C4_DedupSetBounded == Cardinality(processed) <= RetentionN

\* C5: the ingest loop can take the next item whatever the workers are
\* doing, and the workers dispatched and not yet finished never exceed a
\* fixed bound.  For a bound B the model is read with NumHashes = B + 1.
WorkerPoolBound == NumHashes - 1
C5_BoundedInFlight ==
    /\ ingest = "running" /\ delivered < MaxDeliveries => ENABLED IngestErr
    /\ Cardinality(InFlight) <= WorkerPoolBound

\* C10: when the relay answered a worker's submission with an error object,
\* execute_opportunity returned a failure carrying the relay's message, the
\* bundle was posted once, no alert was sent and the worker has ended.
C10_RelayErrorDropsOpportunity ==
    \A h \in Hashes :
        relayResp[h].kind = "error" =>
            /\ ~execResult[h].ok
            /\ \E i \in DOMAIN execResult[h].text :
                  execResult[h].text[i] = relayResp[h].message
            /\ submits[h] = 1
            /\ ~alerted[h]
            /\ wpc[h] = "done"
\* A relay error was returned to one worker, and a transaction dispatched
\* after it was analysed, submitted and accepted.
C10_Witness ==
    \E h \in Hashes, g \in afterFail :
        /\ relayResp[h].kind = "error"
        /\ wpc[g] = "done" /\ execResult[g].ok /\ alerted[g]

(***************************************************************************)
(* Claims about Part II.                                                   *)
(***************************************************************************)

\* C7: for every sandwich and every victim gas price, the frontrun's gas
\* price is strictly above the victim's and the backrun's strictly below it
\* (for a victim without a gas price: the backrun's is below the frontrun's).
C7_StrictGasOrdering ==
    gStage = "priced" =>
        /\ gFront.some /\ gBack.some
        /\ IF gVictim.some
           THEN gFront.v > gVictim.v /\ gBack.v < gVictim.v
           ELSE gBack.v < gFront.v

(***************************************************************************)
(* Claims about Part III.                                                  *)
(***************************************************************************)
\* The relay's reading of a request: the one element of params, its txs and
\* its blockNumber.
PostedBundle(t) == bPosted[t].body[7][1]
PostedTxs(t) == PostedBundle(t)[3]
PostedBlockNumber(t) == PostedBundle(t)[5]

HexDigitValue(d) == CHOOSE i \in 0..15 : HexDigits[i + 1] = d
RECURSIVE ParseHexDigits(_)
ParseHexDigits(ds) ==
    IF ds = <<>> THEN 0
    ELSE 16 * ParseHexDigits(SubSeq(ds, 1, Len(ds) - 1)) + HexDigitValue(ds[Len(ds)])
ParseQuantity(q) == ParseHexDigits(Tail(q))

\* C6: a bundle returned by build_sandwich_bundle has the three entries
\* frontrun (can_revert = FALSE), victim (TRUE), backrun (FALSE) in this
\* order and targets the block after the one read; the request posted for it
\* has one element of txs per entry, made from the entry at the same
\* position, and a blockNumber that reads as the bundle's target block.
C6_BundleOrderPreserved ==
    \A t \in Tasks :
        /\ bBundle[t] # NoBundle =>
              /\ Len(bBundle[t].txs) = 3
              /\ [i \in 1..3 |-> bBundle[t].txs[i].tx.kind] = <<"frontrun", "victim", "backrun">>
              /\ [i \in 1..3 |-> bBundle[t].txs[i].can_revert] = <<FALSE, TRUE, FALSE>>
              /\ bBundle[t].block_number = bBlock[t] + 1
        /\ bPosted[t] # NoPost =>
              /\ Len(PostedTxs(t)) = 3
              /\ \A i \in 1..3 : PostedTxs(t)[i].over = bBundle[t].txs[i].tx
              /\ PostedBlockNumber(t)[1] = "0x"
              /\ ParseQuantity(PostedBlockNumber(t)) = bBundle[t].block_number
\* A bundle was posted whose target block takes three hex digits.
C6_Witness ==
    \E t \in Tasks :
        /\ bPosted[t] # NoPost
        /\ Len(PostedBlockNumber(t)) >= 4
        /\ bBundle[t].block_number >= 256

\* C8: the bot's transactions that are pending at the same time carry
\* pairwise different nonces, within one bundle and across workers.
BotTxNonces(t) ==
    {bTxs[t][i].tx.nonce.v :
        i \in {j \in DOMAIN bTxs[t] : bTxs[t][j].tx.kind # "victim"}}
C8_NoncesSerialized ==
    /\ \A t \in Tasks :
          Len(bTxs[t]) = 3 => bTxs[t][1].tx.nonce # bTxs[t][3].tx.nonce
    /\ \A t, u \in Tasks :
          t # u =>
              BotTxNonces(t) \cap BotTxNonces(u) = {}

\* C9: the bytes whose digest is signed with the relay auth key are the
\* body of the request that is posted.
C9_SignedBytesArePostedBody ==
    \A t \in Tasks : bPosted[t] # NoPost => bSigned[t] = bPosted[t].body

(***************************************************************************)
(* Claims about Part IV.                                                   *)
(***************************************************************************)
\* C11: the frontrun input that calculate_optimal_sandwich returns has the
\* largest profit of its bracket: no x between 0 and the bracket's upper end
\* has a profit above the returned one.
C11_BisectionMaximizesProfit ==
    opt.stage = "returned" =>
        \A x \in 0..bracket_high(opt.reserve_in) :
            simulate_sandwich_profit(x, opt.victim_amount, opt.reserve_in,
                                     opt.reserve_out)[1] <= opt.result.profit

\* C12: a frontrun amount returned by either optimizer is at most a fifth of
\* the input reserve.
C12_FrontrunAtMostFifthOfPool ==
    opt.result.some => opt.result.frontrun_amount <= opt.reserve_in \div 5
\* The bisection returned an amount above a twentieth of a pool, and so above
\* the amount the Newton search starts from.
C12_Witness ==
    /\ opt.fn = "bisect" /\ opt.stage = "returned"
    /\ opt.reserve_in > 0
    /\ opt.result.frontrun_amount > opt.reserve_in \div 20

\* C13: with a reserve of zero the optimizer does not abort, and what it
\* returns has zero profit and is not emitted.
C13_ZeroReserveReturnsZero ==
    opt.stage # "idle" /\ (opt.reserve_in = 0 \/ opt.reserve_out = 0) =>
        /\ opt.stage # "aborted"
        /\ opt.result.profit = 0
        /\ ~opt.emitted

\* C14: a sandwich result is accepted exactly when its profit is at least
\* 0.05 ETH and strictly above twice the gas cost reported with it.
C14_SandwichAcceptance ==
    opt.stage = "decided" =>
        (opt.emitted <=> /\ opt.result.profit >= SpecMinProfit
                         /\ opt.result.profit > 2 * opt.result.gas_cost)

\* C15: the bisection never aborts on a bound update and evaluates at most
\* 40 midpoints.
C15_BisectionTerminates ==
    opt.fn = "bisect" => opt.stage # "aborted" /\ opt.iters <= 40

\* C16: the arbitrage sizing (calculate_arbitrage_profit together with
\* binary_search_optimal_amount) terminates without aborting and evaluates
\* at most twenty midpoints, also when probed amounts are profitable.
C16_ArbSizingTerminates ==
    arb.stage # "overflow" /\ arb.evals <= 20

\* C17: every arbitrage record that is constructed has one more path entry
\* than pools, a path that ends where it starts and two to five pools, and
\* building its transaction never indexes an empty pool list.
C17_ArbRecordWellFormed ==
    /\ rec.stage # "aborted"
    /\ rec.record.built =>
          /\ Len(rec.record.path) = Len(rec.record.pools) + 1
          /\ rec.record.path[1] = rec.record.path[Len(rec.record.path)]
          /\ Len(rec.record.pools) \in 2..5

\* C18: an arbitrage over n pools is accepted exactly when its profit is at
\* least min_arb_profit and strictly above 300000 * n * base_fee.
C18_ArbAcceptance ==
    rec.stage = "decided" /\ rec.record.kind \in {"multi_dex", "triangular", "cross_dex"} =>
        (rec.record.built <=>
            /\ rec.record.expected_profit >= MinArbProfit
            /\ rec.record.expected_profit * GweiPerUnit >
                   300000 * (Len(rec.record.path) - 1) * rec.base_fee)

\* The ranking of the specification: a is ranked before b.
RankedBefore(a, b) ==
    \/ net_profit(a) > net_profit(b)
    \/ net_profit(a) = net_profit(b) /\ a.priority > b.priority
    \/ /\ net_profit(a) = net_profit(b) /\ a.priority = b.priority
       /\ a.expiry_block < b.expiry_block

\* C19: the executed opportunity is first under the ranking by net profit,
\* then higher priority, then lower expiry_block: no surviving opportunity
\* is ranked before it.
C19_ExecutesFirstRanked ==
    pipe.stage = "executed" /\ pipe.executed # 0 =>
        \A k \in 1..Len(pipe.profitable_ops) :
            ~RankedBefore(pipe.ops[pipe.profitable_ops[k]], pipe.ops[pipe.executed])

\* The dry runs that the simulation of position k performed all succeeded.
AllDryRunsSucceeded(k) ==
    /\ pipe.sims[k].block_ok
    /\ \A j \in 1..Len(pipe.sims[k].outs) :
          pipe.sims[k].outs[j].call_ok /\ pipe.sims[k].outs[j].estimate_ok

\* C20: every opportunity that analyze_transaction returns, and so the one
\* that is executed, was simulated without error or revert, with
\* success = true and a net profit above zero.
C20_OnlySimulatedProfitableReturned ==
    /\ \A n \in 1..Len(pipe.profitable_ops) :
          LET k == pipe.profitable_ops[n]
          IN  /\ pipe.sims[k].result.ok
              /\ pipe.sims[k].result.success
              /\ pipe.sims[k].result.profit > 0
              /\ AllDryRunsSucceeded(k)
    /\ pipe.executed # 0 =>
          \E n \in 1..Len(pipe.profitable_ops) : pipe.profitable_ops[n] = pipe.executed

\* An opportunity was returned and executed while another one was dropped
\* because one of its dry runs reverted.
C20_Witness ==
    /\ pipe.stage = "executed"
    /\ pipe.executed # 0
    /\ \E k \in 1..Len(pipe.sims) :
          /\ \E j \in 1..Len(pipe.sims[k].outs) : ~pipe.sims[k].outs[j].call_ok
          /\ \A n \in 1..Len(pipe.profitable_ops) : pipe.profitable_ops[n] # k

\* C21: simulate_sandwich dry-runs frontrun, victim, backrun in this order;
\* once a dry run reverts it returns success = false with zero profit and a
\* revert reason, and no later transaction of the triple is dry-run.
C21_DryRunsInOrderStopAtRevert ==
    /\ dry.calls = SubSeq(DryRunOrder, 1, Len(dry.calls))
    /\ \A j \in 1..Len(dry.outs) :
          ~dry.outs[j].call_ok =>
              /\ Len(dry.calls) = j
              /\ dry.stage = "returned"
              /\ dry.result.ok /\ ~dry.result.success /\ dry.result.profit = 0
              /\ dry.revert_reason # "None"

\* The victim's dry run reverted after the frontrun's had succeeded.
C21_Witness ==
    /\ dry.stage = "returned"
    /\ Len(dry.outs) = 2
    /\ dry.outs[1].call_ok /\ ~dry.outs[2].call_ok

\* The victims that the specification rejects.
RejectedVictim(tx) ==
    \/ tx.value < MinVictimValue
    \/ tx.gas_price.some /\ (tx.gas_price.v = 0 \/ tx.gas_price.v > MaxVictimGasPrice)
    \/ ~tx.to.some

\* C22: for a victim with value below 0.01 ETH, with gas price zero or
\* above 500 gwei, or without recipient, the analysis ends without abort
\* and without opportunity, and both validators reject the victim.
C22_BadVictimRejected ==
    vic.stage \notin {"idle", "input"} /\ RejectedVictim(vic.tx) =>
        /\ vic.stage # "aborted"
        /\ vic.opportunities = 0
        /\ ~validate_profitable_victim(vic.tx, MinVictimValue)
        /\ ~validate_victim_transaction(vic.tx)

\* C23: a victim whose calldata is one of the six swap calls, with a path
\* of two tokens, a recipient and a pool whose sandwich is accepted, yields
\* an opportunity; calldata that is no swap call yields none.
C23_SixSwapVariantsRecognized ==
    vic.stage = "returned" =>
        /\ (/\ vic.tx.input \in SwapCalls
            /\ vic.path_len >= 2 /\ vic.tx.to.some
            /\ vic.optimizer = "accepted") => vic.opportunities = 1
        /\ vic.tx.input \notin SwapCalls => vic.opportunities = 0

\* C24: in every sandwich bundle the frontrun and the backrun entry have the
\* bot's signer as sender, and the victim entry has a different sender,
\* whatever address the observed victim was sent from.
C24_SandwichSendersDistinct ==
    \A t \in Tasks :
        bBundle[t] # NoBundle =>
            LET txs == bBundle[t].txs
            IN  /\ txs[1].signer = BotAddr /\ txs[1].tx.from = BotAddr
                /\ txs[3].signer = BotAddr /\ txs[3].tx.from = BotAddr
                /\ txs[2].signer # BotAddr /\ txs[2].tx.from # BotAddr

\* The key that signs for an address.
VictimKey == "victim key"
KeyOf(address) == IF address = BotAddr THEN BotKey ELSE VictimKey

\* C29: in the request sent to the relay each element of txs is signed with
\* the key of the declared signer of the bundle entry at its position; the
\* element of a victim that is not the bot's own is not signed with the
\* bot's key.
C29_EntriesSignedByDeclaredSigner ==
    \A t \in Tasks :
        bPosted[t] # NoPost =>
            \A i \in 1..Len(PostedTxs(t)) :
                /\ PostedTxs(t)[i].key = KeyOf(bBundle[t].txs[i].signer)
                /\ bBundle[t].txs[i].tx.from # BotAddr => PostedTxs(t)[i].key # BotKey

\* C30: the block that a posted bundle targets is not later than the
\* expiry_block of its opportunity.
C30_TargetWithinExpiry ==
    \A t \in Tasks :
        /\ bBundle[t] # NoBundle => bBundle[t].block_number <= bExpiry[t]
        /\ bPosted[t] # NoPost => ParseQuantity(PostedBlockNumber(t)) <= bExpiry[t]

\* The arithmetic that the specification states: a product clamps to the
\* maximum and a zero divisor yields 0.
saturating_mul(a, b) == IF b # 0 /\ a > CalcMax \div b THEN CalcMax ELSE a * b
div_or_zero(a, b) == IF b = 0 THEN 0 ELSE a \div b

\* C25: no step of the price calculations aborts, and a price that was
\* computed is the saturating product of the reserve and the scale, divided
\* by the other reserve, or 0 for a zero divisor.
C25_ArithmeticNeverAborts ==
    /\ calc.stage # "aborted"
    /\ calc.stage \in {"compare", "sizing"} =>
          \A d \in Dexes :
              calc.prices[d] = div_or_zero(saturating_mul(calc.pools[d].reserve0, PriceScale),
                                           calc.pools[d].reserve1)

\* C26: every pool descriptor of the search has token0 < token1.
C26_PoolTokensOrdered ==
    calc.stage \in {"compare", "sizing", "aborted"} =>
        \A d \in Dexes : address_lt(calc.pools[d].token0, calc.pools[d].token1)

\* The price that the profit allows: 80% of the profit per unit of gas.
TargetGasPrice == ((gp.profit \div gp.gas_estimate) * GasSharePercent) \div 100
MinGasPrice == gp.base_fee + Gwei(PriorityFeeGwei)

C28_NewtonCandidatesWithinCap ==
    opt.fn = "newton" /\ opt.stage = "decided" =>
        LET cap == Min(MaxPositionSize, opt.reserve_in \div 5)
            xs == newton_candidates(NewtonIterations, opt.reserve_in \div 20,
                                    opt.victim_amount, opt.reserve_in, opt.reserve_out)
        IN  /\ Len(xs) <= NewtonIterations
            /\ \A i \in 1..Len(xs) : xs[i] >= 0 /\ xs[i] <= cap
            /\ opt.result.frontrun_amount <= cap
====
